---- MODULE Spec2Model ----
(***************************************************************************)
(* Hierarchical Aggregation Wheel (HAW) of uwheel, with its write-ahead    *)
(* wheel, tick/rollup engine and query planner.                            *)
(*                                                                         *)
(* Source: crates/uwheel-core/src/rw_wheel/read/hierarchical.rs (Haw) and  *)
(* crates/haw/src/wheels/write_ahead/mod.rs (WriteAheadWheel).             *)
(*                                                                         *)
(* Scaling.  The wheel capacities SECONDS .. YEARS and the number of       *)
(* write-ahead slots are the model's bounds: the code reads them from the  *)
(* constants of the same names (60/60/24/7/52/10 and 64), and every        *)
(* definition below is written in terms of the names, exactly as the code  *)
(* is, so a minute is SECONDS seconds, an hour MINUTES minutes, and so on. *)
(* The small values make a rotation of every wheel reachable.              *)
(***************************************************************************)
EXTENDS Integers, Sequences, FiniteSets, TLC

\* ------------------------------------------------------------------ bounds
SECONDS == 2
MINUTES == 2
HOURS == 2
DAYS == 2
WEEKS == 2
YEARS == 2
\* log2 of the number of write-ahead slots (a power of two, 64 in the code)
WriteAheadBits == 1
\* most ticks a behaviour performs on the HAW
MaxTicks == 4
\* most non-None partials (deltas and written entries) a behaviour feeds in
MaxEvents == 1
\* largest input value
MaxVal == 1
\* most deltas handed to one delta_advance call
MaxDeltas == 2
\* most calls of clear, window and merge in a behaviour
MaxSpecial == 1
\* most ticks of a behaviour that is queried
MaxQueryTicks == 12

\* --------------------------------------------------------------- constants
SECOND_AS_MS == 1000
DEFAULT_SIMD_THRESHOLD == 15000

\* ----------------------------------------------------------------- options
\* Option<T>: None and Some(v)
None == [some |-> FALSE, v |-> 0]
Some(x) == [some |-> TRUE, v |-> x]

\* -------------------------------------------------------------- aggregator
\* U64SumAggregator, through the Aggregator contract
IDENTITY == 0
combine(a, b) == a + b
combine_inverse(a, b) == a - b
lift(input) == input
combine_mutable(window, input) == window + input
freeze(m) == m

\* Option::unwrap_or
unwrap_or(o, d) == IF o.some THEN o.v ELSE d
\* Option::map(A::freeze)
map_freeze(o) == IF o.some THEN Some(freeze(o.v)) ELSE None

\* aggregation::combine_or_insert
combine_or_insert(dest, entry) ==
    IF dest.some THEN Some(combine(dest.v, entry)) ELSE Some(entry)

\* the element of a one-element set: Only({F(x) : x \in {e}}) is F at the
\* value of e, computed once
Only(S) == CHOOSE x \in S : TRUE

Min(a, b) == IF a <= b THEN a ELSE b
Max(a, b) == IF a >= b THEN a ELSE b

\* fold of a sequence of partials with combine, starting from IDENTITY
RECURSIVE CombineAll(_)
CombineAll(s) == IF s = <<>> THEN IDENTITY ELSE combine(Head(s), CombineAll(Tail(s)))

\* ---------------------------------------------------------------- durations
MINUTES_AS_SECS == SECONDS
HOURS_AS_SECS == MINUTES_AS_SECS * MINUTES
DAYS_AS_SECS == HOURS_AS_SECS * HOURS
WEEK_AS_SECS == DAYS_AS_SECS * DAYS
YEAR_AS_SECS == WEEK_AS_SECS * WEEKS
TOTAL_SECS_IN_WHEEL == YEAR_AS_SECS * YEARS
\* CYCLE_LENGTH.whole_seconds(): one extra year to force a full cycle rotation
CYCLE_LENGTH_SECS == YEAR_AS_SECS * (YEARS + 1)

SECOND_TICK_MS == SECOND_AS_MS
MINUTE_TICK_MS == MINUTES_AS_SECS * SECOND_AS_MS
HOUR_TICK_MS == HOURS_AS_SECS * SECOND_AS_MS
DAY_TICK_MS == DAYS_AS_SECS * SECOND_AS_MS
WEEK_TICK_MS == WEEK_AS_SECS * SECOND_AS_MS
YEAR_TICK_MS == WEEK_TICK_MS * WEEKS

\* integer division truncating toward zero (Rust `/` on i64)
TruncDiv(a, b) == IF a >= 0 THEN a \div b ELSE -((-a) \div b)

\* Duration::whole_seconds of a duration given in milliseconds
duration_whole_seconds(ms) == TruncDiv(ms, 1000)

\* time::Duration::whole_* of a duration given in seconds
whole_seconds(d) == d
whole_minutes(d) == TruncDiv(d, MINUTES_AS_SECS)
whole_hours(d) == TruncDiv(d, HOURS_AS_SECS)
whole_days(d) == TruncDiv(d, DAYS_AS_SECS)

\* ------------------------------------------------------------------ dates
\* An OffsetDateTime (UTC) is its unix timestamp in seconds.
\* Lengths of the months of 1970, the year of the epoch.
MonthLengths == <<31, 28, 31, 30, 31, 30, 31, 31, 30, 31, 30, 31>>

RECURSIVE DayOfMonth(_, _)
DayOfMonth(dayIdx, m) ==
    IF m > 12 THEN DayOfMonth(dayIdx, 1)
    ELSE IF dayIdx < MonthLengths[m] THEN dayIdx + 1
    ELSE DayOfMonth(dayIdx - MonthLengths[m], m + 1)

second(t) == t % SECONDS
minute(t) == (t \div MINUTES_AS_SECS) % MINUTES
hour(t) == (t \div HOURS_AS_SECS) % HOURS
day(t) == DayOfMonth(t \div DAYS_AS_SECS, 1)

\* Haw::to_ms / Haw::to_offset_date
to_ms(ts) == ts * 1000
to_offset_date(ts) == TruncDiv(ts, 1000)

\* WheelRange [start, end)
WheelRange(s, e) == [start |-> s, end |-> e]

\* Granularity as usize
Second == 0
Minute == 1
Hour == 2
Day == 3

\* WheelRange::lowest_granularity
lowest_granularity(range) ==
    LET is_seconds == second(range.start) # 0 \/ second(range.end) # 0
        is_minutes == minute(range.start) # 0 \/ minute(range.end) # 0
        is_hours == hour(range.start) # 0 \/ hour(range.end) # 0
    IN  IF is_seconds THEN Second
        ELSE IF is_minutes THEN Minute
        ELSE IF is_hours THEN Hour
        ELSE Day

\* WheelRange::duration, in seconds
duration(range) == whole_seconds(range.end - range.start)

\* WheelRange::scan_estimation
scan_estimation(range) ==
    LET dur == duration(range)
        g == lowest_granularity(range)
    IN  IF g = Second THEN whole_seconds(dur)
        ELSE IF g = Minute THEN whole_minutes(dur)
        ELSE IF g = Hour THEN whole_hours(dur)
        ELSE whole_days(dur)

\* ------------------------------------------------- aggregation wheel
\* RetentionPolicy and DataLayout are the strings "Drop"/"Keep" and
\* "Array"/"Prefix".  Slots are kept newest first: slots[1] is the slot of
\* the wheel's latest tick.

\* WheelConf, as Haw::new hands it to MaybeWheel::new
WheelConf(capacity, tick_size_ms, retention, layout, watermark) ==
    [capacity |-> capacity, tick_size_ms |-> tick_size_ms, retention |-> retention,
     layout |-> layout, watermark |-> watermark]

\* MaybeWheel::new: the wheel is not allocated yet
MaybeWheel(conf) ==
    [alloc |-> FALSE, capacity |-> conf.capacity, tick_size_ms |-> conf.tick_size_ms,
     retention |-> conf.retention, layout |-> conf.layout, watermark |-> conf.watermark,
     slots |-> <<>>, prefix |-> <<>>, total |-> None, rotation_count |-> 0]

\* MaybeWheel::get_or_insert: allocates the wheel on first use
get_or_insert(w) == [w EXCEPT !.alloc = TRUE]

\* prefix[i] == combine(prefix[i-1], slots[i])
RECURSIVE PrefixOf(_, _)
PrefixOf(slots, acc) ==
    IF slots = <<>> THEN <<>>
    ELSE <<combine(acc, Head(slots))>> \o PrefixOf(Tail(slots), combine(acc, Head(slots)))

\* the data array after a write: Drop keeps the newest `capacity` slots,
\* Keep keeps them all; a Prefix layout is rebuilt
Retained(w, slots) ==
    IF w.retention = "Drop" /\ Len(slots) > w.capacity
    THEN SubSeq(slots, 1, w.capacity) ELSE slots

WithSlots(w, slots) ==
    [w EXCEPT !.slots = slots,
              !.prefix = IF w.layout = "Prefix" THEN PrefixOf(slots, IDENTITY) ELSE <<>>]

\* AggregationWheel::insert_slot: a fresh slot at the head, counted in total
insert_slot(w, p) ==
    [WithSlots(w, Retained(w, <<p>> \o w.slots)) EXCEPT !.total = combine_or_insert(w.total, p)]

\* AggregationWheel::insert_head: combine into the (fresh) head slot
insert_head(w, p) == insert_slot(w, p)

\* AggregationWheel::tick: the wheel after the tick, and the rollup of the
\* rotation when this tick completes one
wheel_tick(w) ==
    LET full == w.rotation_count + 1 = w.capacity
    IN  [wheel |-> [w EXCEPT !.watermark = w.watermark + w.tick_size_ms,
                             !.rotation_count = IF full THEN 0 ELSE w.rotation_count + 1,
                             !.total = IF full THEN None ELSE w.total],
         rot_data |-> IF full THEN w.total ELSE None]

\* MaybeWheel::clear
wheel_clear(w) ==
    IF w.alloc
    THEN [w EXCEPT !.slots = <<>>, !.prefix = <<>>, !.total = None, !.rotation_count = 0]
    ELSE w

\* AggregationWheel::to_prefix_array / to_array
to_prefix_array(w) == [w EXCEPT !.layout = "Prefix", !.prefix = PrefixOf(w.slots, IDENTITY)]
to_array(w) == [w EXCEPT !.layout = "Array", !.prefix = <<>>]

\* MaybeWheel::total / rotation_count / len
total(w) == IF w.alloc THEN w.total ELSE None
rotation_count(w) == IF w.alloc THEN w.rotation_count ELSE 0
wheel_len(w) == IF w.alloc THEN Min(Len(w.slots), w.capacity) ELSE 0

\* whole units of granularity gran in a duration of d seconds
whole_units(d, gran) ==
    IF gran = Second THEN whole_seconds(d)
    ELSE IF gran = Minute THEN whole_minutes(d)
    ELSE IF gran = Hour THEN whole_hours(d)
    ELSE whole_days(d)

\* combination of slots[from+1 .. to] (newest first), by layout
combine_slots(w, from, to) ==
    IF w.layout = "Prefix"
    THEN combine_inverse(w.prefix[to], IF from = 0 THEN IDENTITY ELSE w.prefix[from])
    ELSE CombineAll(SubSeq(w.slots, from + 1, to))

\* MaybeWheel::aggregate: the `slots` slots that begin at date `start`;
\* None for an absent wheel and for slots the wheel does not hold
aggregate(w, start, slots, gran) ==
    LET slot_distance == whole_units(to_offset_date(w.watermark) - start, gran)
        start_slot == slot_distance - slots
    IN  IF ~w.alloc \/ slots <= 0 \/ start_slot < 0 \/ slot_distance > Len(w.slots)
        THEN None
        ELSE Some(combine_slots(w, start_slot, slot_distance))

\* Aggregation::Scan(n) / Aggregation::Prefix
Scan(n) == [kind |-> "Scan", n |-> n]
Prefix == [kind |-> "Prefix", n |-> 0]

\* MaybeWheel::aggregate_plan: Scan(0) for an absent wheel
aggregate_plan(w, range, gran) ==
    IF ~w.alloc THEN Scan(0)
    ELSE IF w.layout = "Prefix" THEN Prefix
    ELSE Scan(whole_units(range.end - range.start, gran))

\* WheelAggregation::new / cost
WheelAggregation(range, plan) == [range |-> range, plan |-> plan]
aggregation_cost(plan) == IF plan.kind = "Prefix" THEN 1 ELSE plan.n

\* ------------------------------------------------- write-ahead wheel
DEFAULT_WRITE_AHEAD_SLOTS == 2 ^ WriteAheadBits

\* WheelExt::wrap_add: index & (capacity - 1), capacity a power of two
wrap_add(w, idx, addend) == (idx + addend) % w.capacity

\* WheelExt::len: (head - tail) & (capacity - 1)
waw_len(w) == (w.head - w.tail) % w.capacity

\* WheelExt::slot_idx_forward_from_head
slot_idx_forward_from_head(w, addend) == wrap_add(w, w.head, addend)

\* WriteAheadWheel::with_capacity; slot idx of the code is slots[idx + 1]
with_capacity(capacity) ==
    [capacity |-> capacity, slots |-> [i \in 1..capacity |-> None], head |-> 0, tail |-> 0]

\* WriteAheadWheel::is_empty
waw_is_empty(w) == w.tail = w.head

\* a tick that moves the head only when no slot is occupied
waw_tick_keep_tail(w) ==
    LET bumped == [w EXCEPT !.head = wrap_add(w, w.head, 1)]
    IN  IF \E i \in 1..w.capacity : w.slots[i].some
        THEN [waw |-> [bumped EXCEPT !.tail = wrap_add(w, w.tail, 1),
                                     !.slots[w.tail + 1] = None],
              out |-> w.slots[w.tail + 1]]
        ELSE [waw |-> bumped, out |-> None]

\* WriteAheadWheel::tick: the wheel after the tick and the slot it hands out
waw_tick(w) ==
    LET bumped == [w EXCEPT !.head = wrap_add(w, w.head, 1)]
    IN  IF ~waw_is_empty(bumped)
        THEN [waw |-> [bumped EXCEPT !.tail = wrap_add(w, w.tail, 1),
                                     !.slots[w.tail + 1] = None],
              out |-> w.slots[w.tail + 1]]
        ELSE [waw |-> bumped, out |-> None]

\* WriteAheadWheel::write_ahead_len
write_ahead_len(w) == w.capacity - waw_len(w)

\* WriteAheadWheel::can_write_ahead
can_write_ahead(w, addend) == addend <= write_ahead_len(w)

\* WriteAheadWheel::insert
waw_insert(slot, entry) ==
    IF slot.some THEN Some(combine_mutable(slot.v, entry)) ELSE Some(lift(entry))

\* WriteAheadWheel::write_ahead
write_ahead(w, addend, data) ==
    LET slot_idx == slot_idx_forward_from_head(w, addend)
    IN  [w EXCEPT !.slots[slot_idx + 1] = waw_insert(w.slots[slot_idx + 1], data)]

\* Entry and the results of insert: Ok, Error::Late, Error::Overflow
Entry(data, timestamp) == [data |-> data, timestamp |-> timestamp]
Ok == [kind |-> "Ok"]
Late(entry, watermark) == [kind |-> "Late", entry |-> entry, watermark |-> watermark]
Overflow(entry, max_write_ahead_ts) ==
    [kind |-> "Overflow", entry |-> entry, max_write_ahead_ts |-> max_write_ahead_ts]

\* an insert that writes a late entry at the head instead of rejecting it
insert_clamped(w, watermark, entry) ==
    LET seconds == IF entry.timestamp < watermark THEN 0
                   ELSE duration_whole_seconds(entry.timestamp - watermark)
    IN  IF can_write_ahead(w, seconds)
        THEN [waw |-> write_ahead(w, seconds, entry.data), res |-> Ok]
        ELSE [waw |-> w,
              res |-> Overflow(entry, watermark + write_ahead_len(w) * SECOND_AS_MS)]

\* insert(entry) at the given watermark: the wheel after it and the result
insert(w, watermark, entry) ==
    IF entry.timestamp < watermark
    THEN [waw |-> w, res |-> Late(entry, watermark)]
    ELSE LET seconds == duration_whole_seconds(entry.timestamp - watermark)
         IN  IF can_write_ahead(w, seconds)
             THEN [waw |-> write_ahead(w, seconds, entry.data), res |-> Ok]
             ELSE [waw |-> w,
                   res |-> Overflow(entry, watermark + write_ahead_len(w) * SECOND_AS_MS)]

\* ---------------------------------------------------------------- the HAW
\* HawConf: retention and layout are applied to every wheel
\* (with_retention_policy / with_prefix_sum); invertible and simd_support are
\* A::invertible() and A::simd_support() of the aggregator in use.
HawConf(retention, layout, generate_deltas, invertible) ==
    [retention |-> retention, layout |-> layout, generate_deltas |-> generate_deltas,
     invertible |-> invertible, use_hints |-> FALSE, simd_support |-> FALSE,
     simd_threshold |-> DEFAULT_SIMD_THRESHOLD]

\* ------------------------------------------------ access frequencies
\* a plain store of the operand in place of the add
fetch_add_store(cell, value) == value % (2 ^ 30)

\* AtomicU64::fetch_add (sync) / Cell get + set (not sync): the cell after
\* the add, which wraps around (at 30 bits here, at 64 in the code)
fetch_add(cell, value) == (cell + value) % (2 ^ 30)

\* Frequency::default and Frequency::record: the sum first, then the count
Frequency == [sum |-> 0, count |-> 0]
record(slot, value) == [sum |-> fetch_add(slot.sum, value), count |-> fetch_add(slot.count, 1)]

\* WheelFrequencies::default: a table of six, indexed by `gran as usize`
WheelFrequencies == [gran \in 0..5 |-> Frequency]

\* WheelFrequencies::add
frequencies_add(table, gran, value) == [table EXCEPT ![gran] = record(@, value)]

\* Haw::new
HawNew(time, conf) ==
    [watermark |-> time,
     frequencies |-> WheelFrequencies,
     seconds_wheel |-> MaybeWheel(WheelConf(SECONDS, SECOND_TICK_MS, conf.retention, conf.layout, time)),
     minutes_wheel |-> MaybeWheel(WheelConf(MINUTES, MINUTE_TICK_MS, conf.retention, conf.layout, time)),
     hours_wheel |-> MaybeWheel(WheelConf(HOURS, HOUR_TICK_MS, conf.retention, conf.layout, time)),
     days_wheel |-> MaybeWheel(WheelConf(DAYS, DAY_TICK_MS, conf.retention, conf.layout, time)),
     weeks_wheel |-> MaybeWheel(WheelConf(WEEKS, WEEK_TICK_MS, conf.retention, conf.layout, time)),
     years_wheel |-> MaybeWheel(WheelConf(YEARS, YEAR_TICK_MS, conf.retention, conf.layout, time)),
     conf |-> conf,
     delta |-> <<>>,
     window_manager |-> None]

\* Haw::len / is_empty
haw_len(h) ==
    wheel_len(h.seconds_wheel) + wheel_len(h.minutes_wheel) + wheel_len(h.hours_wheel)
    + wheel_len(h.days_wheel) + wheel_len(h.weeks_wheel) + wheel_len(h.years_wheel)
haw_is_empty(h) == haw_len(h) = 0

\* a variant that counts a rotation of the weeks wheel as one day
current_time_in_cycle_short_weeks(h) ==
    rotation_count(h.seconds_wheel)
    + rotation_count(h.minutes_wheel) * MINUTES_AS_SECS
    + rotation_count(h.hours_wheel) * HOURS_AS_SECS
    + rotation_count(h.days_wheel) * DAYS_AS_SECS
    + rotation_count(h.weeks_wheel) * DAYS_AS_SECS
    + rotation_count(h.years_wheel) * YEAR_AS_SECS

\* Haw::current_time_in_cycle, in seconds
current_time_in_cycle(h) ==
    rotation_count(h.seconds_wheel)
    + rotation_count(h.minutes_wheel) * MINUTES_AS_SECS
    + rotation_count(h.hours_wheel) * HOURS_AS_SECS
    + rotation_count(h.days_wheel) * DAYS_AS_SECS
    + rotation_count(h.weeks_wheel) * WEEK_AS_SECS
    + rotation_count(h.years_wheel) * YEAR_AS_SECS

\* Haw::remaining_ticks
remaining_ticks(h) == TOTAL_SECS_IN_WHEEL - current_time_in_cycle(h)

\* Haw::now
now(h) == to_offset_date(h.watermark)

\* wheel_start of create_exec_plan, in ms (saturating_sub)
wheel_start(h) == Max(0, h.watermark - current_time_in_cycle(h) * 1000)

\* the wheel of a granularity
wheel_of(h, gran) ==
    IF gran = Second THEN h.seconds_wheel
    ELSE IF gran = Minute THEN h.minutes_wheel
    ELSE IF gran = Hour THEN h.hours_wheel
    ELSE h.days_wheel

\* Haw::wheel_aggregation_plan
wheel_aggregation_plan(h, range) ==
    LET gran == lowest_granularity(range)
    IN  WheelAggregation(range, aggregate_plan(wheel_of(h, gran), range, gran))

\* Haw::new_curr_end: the next aligned end date
new_curr_end(current_start, end) ==
    LET sec == second(current_start)
        min == minute(current_start)
        hr == hour(current_start)
        next == IF sec > 0 THEN SECONDS - sec
                ELSE IF min > 0 THEN (MINUTES - min) * MINUTES_AS_SECS
                ELSE IF hr > 0 THEN (HOURS - hr) * HOURS_AS_SECS
                ELSE (31 - day(current_start)) * DAYS_AS_SECS
        next_aligned == current_start + next
        rem == end - current_start
    IN  IF next_aligned > end
        THEN \* jump with the largest unit that has a non-zero count
             IF whole_days(rem) > 0 THEN current_start + whole_days(rem) * DAYS_AS_SECS
             ELSE IF whole_hours(rem) > 0 THEN current_start + whole_hours(rem) * HOURS_AS_SECS
             ELSE IF whole_minutes(rem) > 0 THEN current_start + whole_minutes(rem) * MINUTES_AS_SECS
             ELSE current_start + whole_seconds(rem)
        ELSE next_aligned

\* the while loop of split_wheel_ranges; diverged tells that the loop never
\* ends: an iteration that leaves current_start where it was is repeated
\* for ever, and `fuel` bounds the iterations that are run
RECURSIVE SplitLoop(_, _, _, _)
SplitLoop(current_start, end, ranges, fuel) ==
    IF ~(current_start < end) THEN [ranges |-> ranges, diverged |-> FALSE]
    ELSE IF fuel = 0 THEN [ranges |-> ranges, diverged |-> TRUE]
    ELSE LET current_end == new_curr_end(current_start, end)
         IN  IF current_end = current_start
             THEN [ranges |-> Append(ranges, WheelRange(current_start, current_end)),
                   diverged |-> TRUE]
             ELSE SplitLoop(current_end, end,
                            Append(ranges, WheelRange(current_start, current_end)), fuel - 1)

\* every iteration that makes progress moves current_start by a second or
\* more, so a loop still running after end - start iterations never ends
SplitFuel(range) == Max(0, range.end - range.start) + 1

\* Haw::split_wheel_ranges
split_wheel_ranges(range) == SplitLoop(range.start, range.end, <<>>, SplitFuel(range)).ranges
split_diverges(range) == SplitLoop(range.start, range.end, <<>>, SplitFuel(range)).diverged

\* granularity_score of combined_aggregation_plan
granularity_score(start, end) ==
    IF second(start) > 0 \/ second(end) > 0 THEN 0
    ELSE IF minute(start) > 0 \/ minute(end) > 0 THEN 1
    ELSE IF hour(start) > 0 \/ hour(end) > 0 THEN 2
    ELSE 3

\* sort by score; sort_unstable_by is an insertion sort on slices this
\* short, which keeps equal scores in their order
RECURSIVE InsertByScore(_, _)
InsertByScore(sorted, a) ==
    IF sorted = <<>> THEN <<a>>
    ELSE LET l == sorted[Len(sorted)]
         IN  IF granularity_score(l.range.start, l.range.end)
                  <= granularity_score(a.range.start, a.range.end)
             THEN Append(sorted, a)
             ELSE Append(InsertByScore(SubSeq(sorted, 1, Len(sorted) - 1), a), l)

RECURSIVE SortByScore(_, _)
SortByScore(aggs, sorted) ==
    IF aggs = <<>> THEN sorted
    ELSE SortByScore(Tail(aggs), InsertByScore(sorted, Head(aggs)))

\* a plan that keeps the sub-ranges in the order it was given them
combined_aggregation_plan_unsorted(h, ranges) ==
    [i \in 1..Len(ranges) |-> wheel_aggregation_plan(h, ranges[i])]

\* Haw::combined_aggregation_plan
combined_aggregation_plan(h, ranges) ==
    SortByScore([i \in 1..Len(ranges) |-> wheel_aggregation_plan(h, ranges[i])], <<>>)

\* ExecutionPlan variants
WheelAggregationPlan(agg) == [kind |-> "WheelAggregation", aggs |-> <<agg>>]
CombinedAggregation(aggs) == [kind |-> "CombinedAggregation", aggs |-> aggs]
LandmarkAggregation == [kind |-> "LandmarkAggregation", aggs |-> <<>>]
InverseLandmarkAggregation(aggs) == [kind |-> "InverseLandmarkAggregation", aggs |-> aggs]
\* no plan at all: the call that builds the plan never returns
Diverged == [kind |-> "Diverged", aggs |-> <<>>]

RECURSIVE SumCost(_)
SumCost(aggs) == IF aggs = <<>> THEN 0 ELSE aggregation_cost(Head(aggs).plan) + SumCost(Tail(aggs))

\* cost of a Landmark: the combines across the six totals
LANDMARK_COST == 5

\* ExecutionPlan::cost
plan_cost(plan) ==
    IF plan.kind = "LandmarkAggregation" THEN LANDMARK_COST
    ELSE IF plan.kind = "InverseLandmarkAggregation" THEN LANDMARK_COST + SumCost(plan.aggs)
    ELSE SumCost(plan.aggs)

\* ExecutionPlan::is_prefix_or_landmark
is_prefix_or_landmark(plan) ==
    \/ plan.kind = "LandmarkAggregation"
    \/ plan.kind = "WheelAggregation" /\ plan.aggs[1].plan.kind = "Prefix"

\* cmp::min on plans ordered by cost: the first one on a tie
min_plan(a, b) == IF plan_cost(b) < plan_cost(a) THEN b ELSE a

\* the InverseLandmark plan of create_exec_plan: always [wheel_start, start),
\* and [end, watermark) when the range ends before the watermark
inverse_plan(h, range) ==
    LET ws == wheel_start(h)
    IN  InverseLandmarkAggregation(
            <<wheel_aggregation_plan(h, WheelRange(to_offset_date(ws), range.start))>>
            \o (IF to_ms(range.end) < h.watermark
                THEN <<wheel_aggregation_plan(h, WheelRange(range.end, to_offset_date(h.watermark)))>>
                ELSE <<>>))

\* the Combined plan of create_exec_plan
combined_plan(h, range) ==
    CombinedAggregation(combined_aggregation_plan(h, split_wheel_ranges(range)))

\* a planner that takes the landmark only for a range strictly wider than
\* [wheel_start, watermark)
create_exec_plan_strict(h, range) ==
    LET single == WheelAggregationPlan(wheel_aggregation_plan(h, range))
        best1 == IF to_ms(range.start) < wheel_start(h) /\ to_ms(range.end) > h.watermark
                 THEN LandmarkAggregation ELSE single
        best2 == IF h.conf.invertible THEN min_plan(best1, inverse_plan(h, range)) ELSE best1
    IN  IF is_prefix_or_landmark(best1) \/ whole_seconds(duration(range)) < SECONDS
        THEN best1
        ELSE IF split_diverges(range) THEN Diverged
        ELSE min_plan(best2, combined_plan(h, range))

\* a planner without the landmark
create_exec_plan_no_landmark(h, range) ==
    LET single == WheelAggregationPlan(wheel_aggregation_plan(h, range))
        best2 == IF h.conf.invertible THEN min_plan(single, inverse_plan(h, range)) ELSE single
    IN  IF is_prefix_or_landmark(single) \/ whole_seconds(duration(range)) < SECONDS
        THEN single
        ELSE IF split_diverges(range) THEN Diverged
        ELSE min_plan(best2, combined_plan(h, range))

\* Haw::create_exec_plan
create_exec_plan(h, range) ==
    LET single == WheelAggregationPlan(wheel_aggregation_plan(h, range))
        ws == wheel_start(h)
        end_ms == to_ms(range.end)
        start_ms == to_ms(range.start)
        best1 == IF start_ms <= ws /\ end_ms >= h.watermark THEN LandmarkAggregation ELSE single
        best2 == IF h.conf.invertible THEN min_plan(best1, inverse_plan(h, range)) ELSE best1
        combined_aggregation ==
            IF h.conf.use_hints /\ h.conf.simd_support
            THEN plan_cost(best2) > h.conf.simd_threshold
            ELSE TRUE
    IN  IF is_prefix_or_landmark(best1) \/ whole_seconds(duration(range)) < SECONDS
        THEN best1
        ELSE IF combined_aggregation
        THEN IF split_diverges(range) THEN Diverged
             ELSE min_plan(best2, combined_plan(h, range))
        ELSE best2

\* Haw::wheel_aggregation: the result; `panic` when the assertion
\* end >= start fails
wheel_aggregation(h, range) ==
    LET gran == lowest_granularity(range)
        n == whole_units(range.end - range.start, gran)
    IN  IF ~(range.end >= range.start) THEN [res |-> None, panic |-> TRUE]
        ELSE [res |-> aggregate(wheel_of(h, gran), range.start, n, gran), panic |-> FALSE]

\* a reduce that keeps the last Some instead of combining
RECURSIVE reduce_last(_, _, _)
reduce_last(partial_aggs, acc, combines) ==
    IF partial_aggs = <<>> THEN [res |-> acc, cost |-> combines]
    ELSE LET b == Head(partial_aggs)
         IN  IF b.some THEN reduce_last(Tail(partial_aggs), b, combines + 1)
             ELSE reduce_last(Tail(partial_aggs), acc, combines)

\* Haw::reduce: the combination of the Some's, and the number of combines
RECURSIVE reduce(_, _, _)
reduce(partial_aggs, acc, combines) ==
    IF partial_aggs = <<>> THEN [res |-> acc, cost |-> combines]
    ELSE LET b == Head(partial_aggs)
         IN  IF acc.some /\ b.some
             THEN reduce(Tail(partial_aggs), Some(combine(acc.v, b.v)), combines + 1)
             ELSE IF b.some THEN reduce(Tail(partial_aggs), b, combines)
             ELSE reduce(Tail(partial_aggs), acc, combines)

\* Haw::analyze_landmark
analyze_landmark(h) ==
    reduce(<<total(h.minutes_wheel), total(h.hours_wheel), total(h.days_wheel),
             total(h.weeks_wheel), total(h.years_wheel)>>, total(h.seconds_wheel), 0)

\* Haw::landmark
landmark(h) == analyze_landmark(h).res

\* Haw::inverse_landmark_aggregation
RECURSIVE InverseFold(_, _, _)
InverseFold(h, aggs, acc) ==
    IF aggs = <<>> THEN acc
    ELSE LET plan == Head(aggs)
             wa == wheel_aggregation(h, plan.range)
         IN  InverseFold(h, Tail(aggs),
                 [res |-> combine_inverse(acc.res, unwrap_or(wa.res, IDENTITY)),
                  cost |-> acc.cost + aggregation_cost(plan.plan),
                  panic |-> acc.panic \/ wa.panic])

inverse_landmark_aggregation(h, wheel_aggregations) ==
    LET lm == analyze_landmark(h)
        r == InverseFold(h, wheel_aggregations,
                         [res |-> unwrap_or(lm.res, IDENTITY), cost |-> lm.cost, panic |-> FALSE])
    IN  [res |-> Some(r.res), cost |-> r.cost, panic |-> r.panic, hang |-> FALSE]

\* Haw::combined_aggregation
RECURSIVE CombinedFold(_, _, _)
CombinedFold(h, aggs, acc) ==
    IF aggs = <<>> THEN acc
    ELSE LET wa == wheel_aggregation(h, Head(aggs).range)
         IN  CombinedFold(h, Tail(aggs),
                 [res |-> IF wa.res.some THEN combine_or_insert(acc.res, wa.res.v) ELSE acc.res,
                  panic |-> acc.panic \/ wa.panic])

combined_aggregation(h, combined) ==
    LET r == CombinedFold(h, combined.aggs, [res |-> None, panic |-> FALSE])
    IN  [res |-> r.res, cost |-> plan_cost(combined), panic |-> r.panic, hang |-> FALSE]

\* execution of a plan, the match of combine_range_inner
execute_plan(h, exec) ==
    IF exec.kind = "WheelAggregation"
    THEN LET wa == wheel_aggregation(h, exec.aggs[1].range)
         IN  [res |-> wa.res, cost |-> plan_cost(exec), panic |-> wa.panic, hang |-> FALSE]
    ELSE IF exec.kind = "CombinedAggregation" THEN combined_aggregation(h, exec)
    ELSE IF exec.kind = "LandmarkAggregation"
    THEN LET lm == analyze_landmark(h)
         IN  [res |-> lm.res, cost |-> lm.cost, panic |-> FALSE, hang |-> FALSE]
    ELSE IF exec.kind = "InverseLandmarkAggregation"
    THEN inverse_landmark_aggregation(h, exec.aggs)
    ELSE [res |-> None, cost |-> 0, panic |-> FALSE, hang |-> TRUE]

\* Haw::combine_range_inner; `panic` when an assertion fails, `hang` when
\* the call never returns
combine_range_inner(h, range) ==
    IF ~(range.end > range.start) THEN [res |-> None, cost |-> 0, panic |-> TRUE, hang |-> FALSE]
    ELSE execute_plan(h, create_exec_plan(h, range))

\* the access samples of Haw::wheel_aggregation: the frequencies table after a
\* call that passes the assertion
wheel_aggregation_frequencies(table, range) ==
    LET gran == lowest_granularity(range)
        scans == whole_units(range.end - range.start, gran)
        in_arm == IF gran = Second THEN table ELSE frequencies_add(table, gran, scans)
    IN  frequencies_add(in_arm, gran, scans)

\* one wheel_aggregation per range of a plan, in the order of the plan
RECURSIVE FrequenciesFold(_, _)
FrequenciesFold(table, aggs) ==
    IF aggs = <<>> THEN table
    ELSE FrequenciesFold(wheel_aggregation_frequencies(table, Head(aggs).range), Tail(aggs))

\* the frequencies table after the execution of a plan: the Landmark plan
\* reads the totals and calls no wheel_aggregation
execute_plan_frequencies(h, exec) ==
    IF exec.kind \in {"WheelAggregation", "CombinedAggregation", "InverseLandmarkAggregation"}
    THEN FrequenciesFold(h.frequencies, exec.aggs)
    ELSE h.frequencies

\* the frequencies table after Haw::combine_range_inner
combine_range_frequencies(h, range) ==
    IF ~(range.end > range.start) THEN h.frequencies
    ELSE execute_plan_frequencies(h, create_exec_plan(h, range))

\* Haw::combine_range / analyze_combine_range / explain_combine_range
combine_range(h, range) == combine_range_inner(h, range).res
analyze_combine_range(h, range) == combine_range_inner(h, range)
explain_combine_range(h, range) == Some(create_exec_plan(h, range))

\* Haw::interval_with_stats / interval
interval_with_stats(h, dur) ==
    LET to == now(h)
        from == to - duration_whole_seconds(dur)
    IN  analyze_combine_range(h, WheelRange(from, to))
interval(h, dur) == interval_with_stats(h, dur).res

\* ------------------------------------------------------------ the tick
\* a tick whose seconds wheel never hands its rollup on
tick_no_rollup(h, partial_opt) ==
    LET partial == unwrap_or(partial_opt, IDENTITY)
        sec == wheel_tick(insert_head(get_or_insert(h.seconds_wheel), partial))
    IN  [h EXCEPT !.watermark = h.watermark + SECOND_AS_MS,
                  !.seconds_wheel = sec.wheel]

\* a tick that moves the watermark to the next whole second, without the
\* cascade of rollups
tick_to_whole_second(h, partial_opt) ==
    LET partial == unwrap_or(partial_opt, IDENTITY)
        sec == wheel_tick(insert_head(get_or_insert(h.seconds_wheel), partial))
    IN  [h EXCEPT !.watermark = (h.watermark \div SECOND_AS_MS + 1) * SECOND_AS_MS,
                  !.seconds_wheel = sec.wheel]

\* a tick that allocates the minutes wheel at once, before any rollup
tick_eager_minutes(h, partial_opt) ==
    LET partial == unwrap_or(partial_opt, IDENTITY)
        sec == wheel_tick(insert_head(get_or_insert(h.seconds_wheel), partial))
        min == wheel_tick(insert_slot(get_or_insert(h.minutes_wheel), sec.rot_data.v))
        hr == wheel_tick(insert_slot(get_or_insert(h.hours_wheel), min.rot_data.v))
        dy == wheel_tick(insert_slot(get_or_insert(h.days_wheel), hr.rot_data.v))
        wk == wheel_tick(insert_slot(get_or_insert(h.weeks_wheel), dy.rot_data.v))
        yr == wheel_tick(insert_slot(get_or_insert(h.years_wheel), wk.rot_data.v))
        to_min == sec.rot_data.some
        to_hr == to_min /\ min.rot_data.some
        to_dy == to_hr /\ hr.rot_data.some
        to_wk == to_dy /\ dy.rot_data.some
        to_yr == to_wk /\ wk.rot_data.some
    IN  [h EXCEPT !.watermark = h.watermark + SECOND_AS_MS,
                  !.seconds_wheel = sec.wheel,
                  !.minutes_wheel = IF to_min THEN min.wheel
                                    ELSE get_or_insert(h.minutes_wheel),
                  !.hours_wheel = IF to_hr THEN hr.wheel ELSE h.hours_wheel,
                  !.days_wheel = IF to_dy THEN dy.wheel ELSE h.days_wheel,
                  !.weeks_wheel = IF to_wk THEN wk.wheel ELSE h.weeks_wheel,
                  !.years_wheel = IF to_yr THEN yr.wheel ELSE h.years_wheel]

\* Haw::tick: one second forward, with the cascade of rollups
tick(h, partial_opt) ==
    LET partial == unwrap_or(partial_opt, IDENTITY)
        sec == wheel_tick(insert_head(get_or_insert(h.seconds_wheel), partial))
        min == wheel_tick(insert_slot(get_or_insert(h.minutes_wheel), sec.rot_data.v))
        hr == wheel_tick(insert_slot(get_or_insert(h.hours_wheel), min.rot_data.v))
        dy == wheel_tick(insert_slot(get_or_insert(h.days_wheel), hr.rot_data.v))
        wk == wheel_tick(insert_slot(get_or_insert(h.weeks_wheel), dy.rot_data.v))
        yr == wheel_tick(insert_slot(get_or_insert(h.years_wheel), wk.rot_data.v))
        to_min == sec.rot_data.some
        to_hr == to_min /\ min.rot_data.some
        to_dy == to_hr /\ hr.rot_data.some
        to_wk == to_dy /\ dy.rot_data.some
        to_yr == to_wk /\ wk.rot_data.some
    IN  [h EXCEPT !.watermark = h.watermark + SECOND_AS_MS,
                  !.seconds_wheel = sec.wheel,
                  !.minutes_wheel = IF to_min THEN min.wheel ELSE h.minutes_wheel,
                  !.hours_wheel = IF to_hr THEN hr.wheel ELSE h.hours_wheel,
                  !.days_wheel = IF to_dy THEN dy.wheel ELSE h.days_wheel,
                  !.weeks_wheel = IF to_wk THEN wk.wheel ELSE h.weeks_wheel,
                  !.years_wheel = IF to_yr THEN yr.wheel ELSE h.years_wheel]

\* a delta_advance that ticks only for the deltas that carry a partial
RECURSIVE delta_advance_skip(_, _)
delta_advance_skip(h, deltas) ==
    IF deltas = <<>> THEN h
    ELSE IF Head(deltas).some
    THEN Only({delta_advance_skip(h1, Tail(deltas)) : h1 \in {tick(h, Head(deltas))}})
    ELSE delta_advance_skip(h, Tail(deltas))

\* Haw::delta_advance: one tick per delta, in the order of the iterator
RECURSIVE delta_advance(_, _)
delta_advance(h, deltas) ==
    IF deltas = <<>> THEN h
    ELSE Only({delta_advance(h1, Tail(deltas)) : h1 \in {tick(h, Head(deltas))}})

\* Haw::clear
clear(h) ==
    [h EXCEPT !.seconds_wheel = wheel_clear(h.seconds_wheel),
              !.minutes_wheel = wheel_clear(h.minutes_wheel),
              !.hours_wheel = wheel_clear(h.hours_wheel),
              !.days_wheel = wheel_clear(h.days_wheel),
              !.weeks_wheel = wheel_clear(h.weeks_wheel),
              !.years_wheel = wheel_clear(h.years_wheel)]

\* Haw::convert_all_to_prefix / convert_all_to_array; they unwrap the four
\* wheels, so they abort unless all four are allocated
can_convert(h) ==
    h.seconds_wheel.alloc /\ h.minutes_wheel.alloc /\ h.hours_wheel.alloc /\ h.days_wheel.alloc

convert_all_to_prefix(h) ==
    [h EXCEPT !.seconds_wheel = to_prefix_array(h.seconds_wheel),
              !.minutes_wheel = to_prefix_array(h.minutes_wheel),
              !.hours_wheel = to_prefix_array(h.hours_wheel),
              !.days_wheel = to_prefix_array(h.days_wheel)]

convert_all_to_array(h) ==
    [h EXCEPT !.seconds_wheel = to_array(h.seconds_wheel),
              !.minutes_wheel = to_array(h.minutes_wheel),
              !.hours_wheel = to_array(h.hours_wheel),
              !.days_wheel = to_array(h.days_wheel)]

\* ------------------------------------------------------ window manager
\* The pair lengths of a periodic window: one length when range is a
\* multiple of slide, otherwise two lengths that alternate.
pair_p2(range, slide) == range % slide
pair_p1(range, slide) == slide - pair_p2(range, slide)
pair_even(range, slide) == pair_p2(range, slide) = 0

\* WindowManager::new(watermark, range, slide), all in ms
WindowManager(time, range, slide) ==
    LET len == IF pair_even(range, slide) THEN slide ELSE pair_p2(range, slide)
    IN  [range |-> range, slide |-> slide,
         current_pair_len |-> len,
         pair_ticks_remaining |-> duration_whole_seconds(len),
         in_p1 |-> FALSE,
         next_pair_end |-> time + len,
         next_window_end |-> time + range,
         window |-> <<>>]

\* State::update_pair_len
update_pair_len(m) ==
    IF pair_even(m.range, m.slide) THEN m
    ELSE IF m.in_p1
    THEN [m EXCEPT !.current_pair_len = pair_p2(m.range, m.slide), !.in_p1 = FALSE]
    ELSE [m EXCEPT !.current_pair_len = pair_p1(m.range, m.slide), !.in_p1 = TRUE]

\* Haw::window
window(h, range, slide) ==
    [h EXCEPT !.window_manager = Some(WindowManager(h.watermark, range, slide))]

\* Haw::handle_window_maybe: the HAW and the window results after it; hang
\* when the query for the pair never returns
handle_window_maybe(h, windows) ==
    IF ~h.window_manager.some THEN [haw |-> h, windows |-> windows, hang |-> FALSE]
    ELSE
    LET m0 == h.window_manager.v
        m1 == [m0 EXCEPT !.pair_ticks_remaining = m0.pair_ticks_remaining - 1]
    IN  IF m1.pair_ticks_remaining # 0
        THEN [haw |-> [h EXCEPT !.window_manager = Some(m1)], windows |-> windows,
              hang |-> FALSE]
        ELSE
        LET from == to_offset_date(h.watermark - m1.current_pair_len)
            to == to_offset_date(h.watermark)
            q == combine_range_inner(h, WheelRange(from, to))
            pair == q.res
            pushed == Append(m1.window, unwrap_or(pair, IDENTITY))
            m2 == update_pair_len(m1)
            m3 == [m2 EXCEPT !.next_pair_end = h.watermark + m2.current_pair_len,
                             !.pair_ticks_remaining = duration_whole_seconds(m2.current_pair_len)]
            emit == h.watermark = m3.next_window_end
            m4 == IF emit
                  THEN [m3 EXCEPT !.window = Tail(pushed),
                                  !.next_window_end = m3.next_window_end + m3.slide]
                  ELSE [m3 EXCEPT !.window = pushed]
        IN  [haw |-> [h EXCEPT !.window_manager = Some(m4),
                               !.frequencies =
                                   combine_range_frequencies(h, WheelRange(from, to))],
             windows |-> IF emit
                         THEN Append(windows, <<h.watermark, CombineAll(pushed)>>)
                         ELSE windows,
             hang |-> q.hang]

\* ------------------------------------------------------------- advance
\* `as usize` of a signed number of seconds: a negative count wraps around
\* to the top of the unsigned range (31 bits wide here, 64 in the code)
as_usize(x) == IF x >= 0 THEN x ELSE 2147483647 + x + 1

\* the for loop of Haw::advance: `fed` lists what each tick was given
\* one iteration of the for loop of Haw::advance
AdvanceStep(h, w, windows, fed) ==
    LET wt == waw_tick(w)
        delta == map_freeze(wt.out)
        h1 == IF h.conf.generate_deltas THEN [h EXCEPT !.delta = Append(h.delta, delta)] ELSE h
        h2 == tick(h1, delta)
    IN  Only({[haw |-> hw.haw, waw |-> wt.waw, windows |-> hw.windows,
               fed |-> Append(fed, delta), hang |-> hw.hang] :
                 hw \in {handle_window_maybe(h2, windows)}})

RECURSIVE AdvanceLoop(_, _, _, _, _)
AdvanceLoop(h, w, windows, fed, ticks) ==
    IF ticks = 0
    THEN [haw |-> h, waw |-> w, windows |-> windows, fed |-> fed, cleared |-> FALSE,
          hang |-> FALSE]
    ELSE Only({IF s.hang
               THEN [haw |-> s.haw, waw |-> s.waw, windows |-> s.windows, fed |-> s.fed,
                     cleared |-> FALSE, hang |-> TRUE]
               ELSE AdvanceLoop(s.haw, s.waw, s.windows, s.fed, ticks - 1) :
                  s \in {AdvanceStep(h, w, windows, fed)}})

\* an advance that rounds a fraction of a second up to one more tick
advance_round_up(h, w, dur) ==
    LET ticks == as_usize(duration_whole_seconds(dur + SECOND_AS_MS - 1))
    IN  IF ticks <= CYCLE_LENGTH_SECS
        THEN AdvanceLoop(h, w, <<>>, <<>>, ticks)
        ELSE [haw |-> clear(h), waw |-> w, windows |-> <<>>, fed |-> <<>>, cleared |-> TRUE,
              hang |-> FALSE]

\* an advance that makes one tick more than the whole seconds of a
\* duration of a second or longer
advance_one_more(h, w, dur) ==
    LET ticks == as_usize(duration_whole_seconds(dur))
    IN  IF ticks <= CYCLE_LENGTH_SECS
        THEN AdvanceLoop(h, w, <<>>, <<>>, IF ticks > 0 THEN ticks + 1 ELSE 0)
        ELSE [haw |-> clear(h), waw |-> w, windows |-> <<>>, fed |-> <<>>, cleared |-> TRUE,
              hang |-> FALSE]

\* Haw::advance, duration in ms
advance(h, w, dur) ==
    LET ticks == as_usize(duration_whole_seconds(dur))
    IN  IF ticks <= CYCLE_LENGTH_SECS
        THEN AdvanceLoop(h, w, <<>>, <<>>, ticks)
        ELSE [haw |-> clear(h), waw |-> w, windows |-> <<>>, fed |-> <<>>, cleared |-> TRUE,
              hang |-> FALSE]

\* an advance_to that advances by the distance to the watermark given, be it
\* ahead or behind
advance_to_distance(h, w, watermark) ==
    LET diff == Max(watermark - h.watermark, h.watermark - watermark)
    IN  advance(h, w, diff)

\* Haw::advance_to
advance_to(h, w, watermark) ==
    LET diff == Max(0, watermark - h.watermark)
    IN  advance(h, w, diff)

\* ---------------------------------------------------------------- merge
\* AggregationWheel::merge: totals and slots combined position by position
wheel_merge(w, other) ==
    IF ~w.alloc \/ ~other.alloc THEN w
    ELSE LET n == Min(Len(w.slots), Len(other.slots))
             slots == [i \in 1..Len(w.slots) |->
                          IF i <= n THEN combine(w.slots[i], other.slots[i]) ELSE w.slots[i]]
         IN  [WithSlots(w, slots) EXCEPT
                 !.total = IF other.total.some
                           THEN combine_or_insert(w.total, other.total.v) ELSE w.total]

\* the alignment by time in Haw::merge: the wheel that is behind advances to
\* the watermark of the one ahead, with an empty write-ahead wheel
align(h, watermark) ==
    IF h.watermark < watermark
    THEN advance_to(h, with_capacity(DEFAULT_WRITE_AHEAD_SLOTS), watermark).haw
    ELSE h

\* the six wheel merges of Haw::merge, on the aligned wheels
merge_wheels(a, o) ==
    [self |-> [a EXCEPT !.seconds_wheel = wheel_merge(a.seconds_wheel, o.seconds_wheel),
                        !.minutes_wheel = wheel_merge(a.minutes_wheel, o.minutes_wheel),
                        !.hours_wheel = wheel_merge(a.hours_wheel, o.hours_wheel),
                        !.days_wheel = wheel_merge(a.days_wheel, o.days_wheel),
                        !.weeks_wheel = wheel_merge(a.weeks_wheel, o.weeks_wheel),
                        !.years_wheel = wheel_merge(a.years_wheel, o.years_wheel)],
     other |-> o]

\* a merge that adopts the watermark of other instead of aligning the two
merge_adopt(self, other) ==
    [self |-> [self EXCEPT
                  !.watermark = other.watermark,
                  !.seconds_wheel = wheel_merge(self.seconds_wheel, other.seconds_wheel)],
     other |-> other]

\* Haw::merge: self and other after the merge
merge(self, other) ==
    merge_wheels(align(self, other.watermark), align(other, self.watermark))

\* ================================================================ state
VARIABLES
    haw,      \* the Haw
    waw,      \* the WriteAheadWheel that advance ticks
    ticked,   \* history: what each tick of the HAW inserted, oldest first
    expected, \* history: expected[i] is what was written for the i-th tick of waw
    returned, \* history: what each tick of waw handed out, oldest first
    last,     \* the last operation, its inputs and what it returned
    special,  \* history: number of calls of clear, window, merge and of the queries
    epoch,    \* history: number of ticks made when the wheels were last cleared
    readers   \* the threads inside Frequency::record, each with its position

vars == <<haw, waw, ticked, expected, returned, last, special, epoch, readers>>

\* initial watermarks (ms): the epoch, and one second into a minute
InitialWatermarks == {0, 1000}

\* configurations: the default, and Keep with deltas and a non-invertible
\* aggregator
Confs ==
    {HawConf("Drop", "Array", FALSE, TRUE),
     HawConf("Keep", "Array", TRUE, FALSE)}

\* deltas a caller may hand in
DeltaSet == {None} \cup {Some(v) : v \in 1..MaxVal}

\* None counted as IDENTITY
Inserted(deltas) == [i \in 1..Len(deltas) |-> unwrap_or(deltas[i], IDENTITY)]

\* number of Some's in a sequence of options
NumSome(s) == Cardinality({i \in 1..Len(s) : s[i].some})

\* inputs fed in so far: non-identity ticks and occupied write-ahead slots
Events == Cardinality({i \in 1..Len(ticked) : ticked[i] # IDENTITY})
          + Cardinality({i \in 1..waw.capacity : waw.slots[i].some})

\* what `last` keeps of the state an operation started from
Before ==
    [watermark |-> haw.watermark, head |-> waw.head, tail |-> waw.tail, slots |-> waw.slots]

NoOp ==
    [op |-> "new", arg |-> <<>>, res |-> <<>>,
     before |-> [watermark |-> 0, head |-> 0, tail |-> 0, slots |-> <<>>]]

Init ==
    /\ \E time \in InitialWatermarks, conf \in Confs : haw = HawNew(time, conf)
    /\ waw = with_capacity(DEFAULT_WRITE_AHEAD_SLOTS)
    /\ ticked = <<>>
    /\ expected = <<>>
    /\ returned = <<>>
    /\ last = NoOp
    /\ special = 0
    /\ epoch = 0
    /\ readers = <<>>

\* -------------------------------------------------------------- actions
\* sequences of 1..MaxDeltas deltas
DeltaSeqs == UNION {[1..n -> DeltaSet] : n \in 1..MaxDeltas}

\* durations handed to advance (ms): negative, whole and fractional seconds,
\* and more than a full cycle
AdvanceDurations ==
    {-1000, 1000, 2500, (CYCLE_LENGTH_SECS + 1) * 1000}

\* haw.delta_advance(deltas)
DeltaAdvance ==
    \E deltas \in DeltaSeqs :
        /\ Len(ticked) + Len(deltas) <= MaxTicks
        /\ Events + NumSome(deltas) <= MaxEvents
        /\ haw' = delta_advance(haw, deltas)
        /\ ticked' = ticked \o Inserted(deltas)
        /\ last' = [op |-> "delta_advance", arg |-> deltas, res |-> <<>>, before |-> Before]
        /\ UNCHANGED <<waw, expected, returned, special, epoch, readers>>

\* the step of advance and advance_to, r being what the call returns
Advanced(op, arg, r) ==
    /\ ~r.hang
    /\ Len(ticked) + Len(r.fed) <= MaxTicks
    /\ haw' = r.haw
    /\ waw' = r.waw
    /\ ticked' = ticked \o Inserted(r.fed)
    /\ returned' = returned \o r.fed
    /\ last' = [op |-> op, arg |-> arg, res |-> r.windows, before |-> Before]
    /\ epoch' = IF r.cleared THEN Len(ticked) ELSE epoch
    /\ UNCHANGED <<expected, special, readers>>

\* haw.advance(duration, waw)
Advance ==
    \E dur \in AdvanceDurations :
        \E r \in {advance(haw, waw, dur)} : Advanced("advance", dur, r)

\* haw.advance_to(watermark, waw), to a watermark behind or ahead of now
AdvanceTo ==
    \E off \in {-1000, 1500} :
        /\ haw.watermark + off >= 0
        /\ \E r \in {advance_to(haw, waw, haw.watermark + off)} :
               Advanced("advance_to", haw.watermark + off, r)

\* waw.write_ahead(addend, data), once can_write_ahead(addend) allows it
WriteAhead ==
    \E addend \in 0..(waw.capacity + 1), data \in 1..MaxVal :
        /\ Events + 1 <= MaxEvents
        /\ can_write_ahead(waw, addend)
        /\ waw' = write_ahead(waw, addend, data)
        /\ LET at == Len(returned) + addend + 1
               padded == [i \in 1..Max(Len(expected), at) |->
                             IF i <= Len(expected) THEN expected[i] ELSE None]
           IN  expected' = [padded EXCEPT ![at] = waw_insert(padded[at], data)]
        /\ last' = [op |-> "write_ahead", arg |-> <<addend, data>>, res |-> <<>>,
                    before |-> Before]
        /\ UNCHANGED <<haw, ticked, returned, special, epoch, readers>>

\* haw.clear()
Clear ==
    /\ special < MaxSpecial
    /\ special' = special + 1
    /\ haw' = clear(haw)
    /\ last' = [op |-> "clear", arg |-> <<>>, res |-> <<>>, before |-> Before]
    /\ epoch' = Len(ticked)
    /\ UNCHANGED <<waw, ticked, expected, returned, readers>>

\* window lengths (ms): range >= slide, whole seconds
WindowSpecs == {<<3000, 2000>>}

\* haw.window(range, slide)
Window ==
    \E ws \in WindowSpecs :
        /\ special < MaxSpecial
        /\ special' = special + 1
        /\ haw' = window(haw, ws[1], ws[2])
        /\ last' = [op |-> "window", arg |-> ws, res |-> <<>>, before |-> Before]
        /\ UNCHANGED <<waw, ticked, expected, returned, epoch, readers>>

\* the other wheel of a merge: created at `time` with the same configuration
\* and ticked with `deltas`
OtherHaw(time, deltas) == delta_advance(HawNew(time, haw.conf), deltas)

\* ticked after a merge: the ticks advance_to made, then the slots of other
\* combined in from the newest
MergedTicked(t, other) ==
    LET o == other.seconds_wheel.slots
    IN  [i \in 1..Len(t) |->
            IF Len(t) - i + 1 <= Len(o) THEN combine(t[i], o[Len(t) - i + 1]) ELSE t[i]]

\* the state after haw.merge(other) returned r
Merged(other, ahead, r) ==
    /\ special < MaxSpecial
    /\ special' = special + 1
    /\ Len(ticked) + ahead <= MaxTicks
    /\ haw' = r.self
    /\ ticked' = MergedTicked(ticked \o [i \in 1..ahead |-> IDENTITY], r.other)
    /\ last' = [op |-> "merge", arg |-> other.watermark, res |-> r.other.watermark,
                before |-> Before]
    /\ UNCHANGED <<waw, expected, returned, epoch, readers>>

MergeWith(other) ==
    Merged(other,
           IF other.watermark > haw.watermark
           THEN duration_whole_seconds(other.watermark - haw.watermark) ELSE 0,
           merge(haw, other))

\* haw.merge(other)
Merge ==
    \E time \in InitialWatermarks, deltas \in DeltaSeqs :
        /\ Events + NumSome(deltas) <= MaxEvents
        /\ \E other \in {OtherHaw(time, deltas)} : MergeWith(other)

Next ==
    \/ DeltaAdvance
    \/ Advance
    \/ AdvanceTo
    \/ WriteAhead
    \/ Clear
    \/ Window
    \/ Merge

Spec == Init /\ [][Next]_vars

\* ------------------------------------------------- the queried wheel
\* A wheel that is ticked one second at a time, cleared and switched between
\* the layouts, and queried in every state it reaches.

\* initial watermarks (ms): the epoch, and midnight of the 30th and of the
\* 31st of January
InitialWatermarksQ == {0, to_ms(29 * DAYS_AS_SECS), to_ms(30 * DAYS_AS_SECS)}

\* configurations: both retention policies, with and without combine_inverse
ConfsQ ==
    {HawConf(retention, "Array", FALSE, invertible) :
        retention \in {"Drop", "Keep"}, invertible \in BOOLEAN}

InitQ ==
    /\ \E time \in InitialWatermarksQ, conf \in ConfsQ : haw = HawNew(time, conf)
    /\ waw = with_capacity(DEFAULT_WRITE_AHEAD_SLOTS)
    /\ ticked = <<>>
    /\ expected = <<>>
    /\ returned = <<>>
    /\ last = NoOp
    /\ special = 0
    /\ epoch = 0
    /\ readers = <<>>

\* haw.delta_advance([delta]): one tick
Tick ==
    \E delta \in DeltaSet :
        /\ Len(ticked) < MaxQueryTicks
        /\ Events + NumSome(<<delta>>) <= MaxEvents
        /\ haw' = delta_advance(haw, <<delta>>)
        /\ ticked' = Append(ticked, unwrap_or(delta, IDENTITY))
        /\ last' = [op |-> "tick", arg |-> delta, res |-> <<>>, before |-> Before]
        /\ UNCHANGED <<waw, expected, returned, special, epoch, readers>>

\* haw.convert_all_to_prefix(), for an aggregator with combine_inverse
ConvertToPrefix ==
    /\ can_convert(haw)
    /\ haw.conf.invertible
    /\ haw.seconds_wheel.layout = "Array"
    /\ haw' = convert_all_to_prefix(haw)
    /\ last' = [op |-> "convert_all_to_prefix", arg |-> <<>>, res |-> <<>>, before |-> Before]
    /\ UNCHANGED <<waw, ticked, expected, returned, special, epoch, readers>>

\* haw.convert_all_to_array()
ConvertToArray ==
    /\ can_convert(haw)
    /\ haw.seconds_wheel.layout = "Prefix"
    /\ haw' = convert_all_to_array(haw)
    /\ last' = [op |-> "convert_all_to_array", arg |-> <<>>, res |-> <<>>, before |-> Before]
    /\ UNCHANGED <<waw, ticked, expected, returned, special, epoch, readers>>

NextQ ==
    \/ Tick
    \/ Clear
    \/ ConvertToPrefix
    \/ ConvertToArray

SpecQ == InitQ /\ [][NextQ]_vars

\* the second (date) the first tick began at, and the one the wheels hold
\* data from
CreatedAt == to_offset_date(haw.watermark) - Len(ticked)
WheelStart == to_offset_date(wheel_start(haw))

\* the second-by-second scan of [start, end) over what was ticked in
ScanSeconds(start, end) ==
    CombineAll([i \in 1..(end - start) |-> ticked[start - CreatedAt + i]])

\* the ranges [start, end) with wheel_start <= start < end <= watermark
ValidRanges ==
    {r \in {WheelRange(start, end) : start, end \in WheelStart..now(haw)} : r.start < r.end}
\* =============================================================== claims
\* C1: across any sequence of operations on one HAW (delta_advance, advance,
\* advance_to, clear, merge, window; the queries are operators that leave the
\* state alone), the watermark never decreases.
C1_WatermarkMonotonic == [][haw'.watermark >= haw.watermark]_vars

\* C1 witness: the wheel has ticked, and a merge with a wheel that is behind
\* has left the watermark where it was
C1_Witness ==
    /\ last.op = "merge"
    /\ last.arg < last.before.watermark
    /\ Len(ticked) > 0
    /\ haw.watermark = last.before.watermark

\* C2: delta_advance over n deltas performs exactly n ticks in iterator
\* order: the watermark grows by n * 1000 ms, and the seconds wheel holds the
\* deltas from the newest back, a None delta as the aggregator's IDENTITY.
C2_DeltaAdvanceTicks ==
    last.op = "delta_advance" =>
        LET n == Len(last.arg)
            slots == haw.seconds_wheel.slots
        IN  /\ haw.watermark = last.before.watermark + n * SECOND_AS_MS
            /\ haw.seconds_wheel.alloc
            /\ Len(slots) >= Min(n, SECONDS)
            /\ \A i \in 1..Min(n, Len(slots)) :
                   slots[i] = unwrap_or(last.arg[n - i + 1], IDENTITY)

\* C2 witness: two deltas, a partial and then a None, have been ticked in
C2_Witness ==
    /\ last.op = "delta_advance"
    /\ Len(last.arg) = 2
    /\ last.arg[1].some /\ ~last.arg[2].some
    /\ haw.seconds_wheel.slots[1] = IDENTITY
    /\ haw.seconds_wheel.slots[2] = last.arg[1].v

\* the slot the j-th tick of the write-ahead wheel hands out, counted from
\* the state `before`, when nothing is written in between
FedByTick(before, j) ==
    LET cap == Len(before.slots)
    IN  IF j <= cap THEN before.slots[((before.tail + j - 1) % cap) + 1] ELSE None

\* C3: advance(d, waw) whose tick count does not exceed CYCLE_LENGTH_SECS
\* performs floor(d_ms / 1000) ticks of the HAW, ticks the write-ahead wheel
\* once for each, and feeds the j-th HAW tick the frozen slot that the j-th
\* write-ahead tick handed out, or IDENTITY when it handed out nothing.
C3_AdvanceTicks ==
    (last.op = "advance" /\ as_usize(duration_whole_seconds(last.arg)) <= CYCLE_LENGTH_SECS) =>
        LET n == last.arg \div SECOND_AS_MS
            slots == haw.seconds_wheel.slots
        IN  /\ haw.watermark = last.before.watermark + n * SECOND_AS_MS
            /\ waw.head = (last.before.head + n) % waw.capacity
            /\ waw.tail = (last.before.tail + n) % waw.capacity
            /\ Len(slots) >= Min(n, SECONDS)
            /\ \A i \in 1..Min(n, Len(slots)) :
                   slots[i] = unwrap_or(map_freeze(FedByTick(last.before, n - i + 1)), IDENTITY)

\* C3 witness: an advance of two and a half seconds has made two ticks, the
\* first of them fed from an occupied write-ahead slot
C3_Witness ==
    /\ last.op = "advance"
    /\ last.arg = 2500
    /\ haw.watermark = last.before.watermark + 2 * SECOND_AS_MS
    /\ FedByTick(last.before, 1).some
    /\ haw.seconds_wheel.slots[2] = FedByTick(last.before, 1).v

\* C4: every input accepted by write_ahead with addend d is handed out by
\* exactly the (d+1)-th later tick of the write-ahead wheel: every tick
\* hands out what was written for it, and nothing else.
C4_ReturnedOnItsTick ==
    \A i \in 1..Len(returned) :
        returned[i] = IF i <= Len(expected) THEN map_freeze(expected[i]) ELSE None

\* C5: on a HAW with RetentionPolicy::Keep, for every range [start, end) with
\* wheel_start <= start < end <= watermark, combine_range returns, and returns
\* the partial that wheel_aggregation gives for the same range, whichever
\* plan the planner selects.
C5_PlanEquivalence ==
    haw.conf.retention = "Keep" =>
        \A r \in ValidRanges :
            LET q == combine_range_inner(haw, r)
            IN  ~q.hang /\ ~q.panic /\ q.res = wheel_aggregation(haw, r).res

\* C6, as stated: within one cycle landmark() is the combination of every
\* per-second partial ticked into the HAW since it was created.
C6_LandmarkSinceCreation ==
    Len(ticked) > 0 => unwrap_or(landmark(haw), IDENTITY) = CombineAll(ticked)

\* C6, amended: within one cycle landmark() is the combination of every
\* per-second partial ticked into the HAW since it was created or, if it has
\* been cleared since, since it was last cleared, each counted once; it is
\* None when no tick has been made since then.
C6_LandmarkSinceCleared ==
    landmark(haw) = IF epoch = Len(ticked) THEN None
                    ELSE Some(CombineAll(SubSeq(ticked, epoch + 1, Len(ticked))))

\* C6 witness: a cleared wheel has since rolled a partial up as far as the
\* hours wheel, and the landmark counts it
C6_Witness ==
    /\ epoch > 0
    /\ current_time_in_cycle(haw) >= HOURS_AS_SECS
    /\ total(haw.seconds_wheel) = None
    /\ landmark(haw).some
    /\ landmark(haw).v # IDENTITY

\* C7: in every state with watermark > wheel_start,
\* combine_range([wheel_start, watermark)) returns what landmark() returns.
C7_FullRangeIsLandmark ==
    haw.watermark > wheel_start(haw) =>
        LET q == combine_range_inner(haw, WheelRange(WheelStart, now(haw)))
        IN  ~q.hang /\ ~q.panic /\ q.res = landmark(haw)

\* C7 witness: a Drop wheel that has rolled a partial up into the days
\* wheel, where the seconds wheel no longer holds the range
C7_Witness ==
    /\ haw.conf.retention = "Drop"
    /\ current_time_in_cycle(haw) >= DAYS_AS_SECS
    /\ landmark(haw).some
    /\ landmark(haw).v # IDENTITY

\* C8: for an aggregator with combine_inverse and every range with
\* wheel_start <= start < end <= watermark, the Combined plan can be built and
\* executing it gives the partial that executing the InverseLandmark plan gives.
C8_InverseEqualsCombined ==
    haw.conf.invertible =>
        \A r \in ValidRanges :
            /\ ~split_diverges(r)
            /\ execute_plan(haw, inverse_plan(haw, r)).res
                   = execute_plan(haw, combined_plan(haw, r)).res

\* what a query gives: its result, or that it aborted or never returned
Outcome(q) == [res |-> q.res, panic |-> q.panic, hang |-> q.hang]

\* C9: switching the seconds, minutes, hours and days wheels between the
\* Array and the Prefix layout before querying changes the result of neither
\* combine_range nor interval nor landmark.
C9_LayoutEquivalence ==
    (can_convert(haw) /\ haw.conf.invertible) =>
        LET a == convert_all_to_array(haw)
            p == convert_all_to_prefix(haw)
        IN  /\ landmark(a) = landmark(p)
            /\ \A r \in ValidRanges :
                   Outcome(combine_range_inner(a, r)) = Outcome(combine_range_inner(p, r))
            /\ \A k \in 1..Len(ticked) :
                   Outcome(interval_with_stats(a, k * SECOND_AS_MS))
                       = Outcome(interval_with_stats(p, k * SECOND_AS_MS))

\* C10: interval(k seconds) returns what combine_range([now - k s, now))
\* returns, and for 1 <= k <= number of ticks performed that is the
\* combination of the partials of the last k ticks, None counted as IDENTITY.
C10_IntervalLastTicks ==
    \A k \in 1..(Len(ticked) - epoch) :
        LET q == interval_with_stats(haw, k * SECOND_AS_MS)
        IN  /\ Outcome(q) = Outcome(combine_range_inner(haw, WheelRange(now(haw) - k, now(haw))))
            /\ ~q.hang /\ ~q.panic
            /\ q.res = Some(CombineAll(SubSeq(ticked, Len(ticked) - k + 1, Len(ticked))))

\* ------------------------------------------------- the rolling wheel
\* A wheel that is ticked one second at a time through more than a full
\* rotation of the years wheel, and cleared at most MaxSpecial times.

\* ticks of the rolling wheel: one full cycle of the scaled wheels and two more
MaxRollTicks == 66

InitR ==
    /\ \E conf \in Confs : haw = HawNew(SECOND_AS_MS, conf)
    /\ waw = with_capacity(DEFAULT_WRITE_AHEAD_SLOTS)
    /\ ticked = <<>>
    /\ expected = <<>>
    /\ returned = <<>>
    /\ last = NoOp
    /\ special = 0
    /\ epoch = 0
    /\ readers = <<>>

\* haw.delta_advance([delta]): one tick
TickR ==
    \E delta \in DeltaSet :
        /\ Len(ticked) < MaxRollTicks
        /\ Events + NumSome(<<delta>>) <= MaxEvents
        /\ haw' = delta_advance(haw, <<delta>>)
        /\ ticked' = Append(ticked, unwrap_or(delta, IDENTITY))
        /\ last' = [op |-> "tick", arg |-> delta, res |-> <<>>, before |-> Before]
        /\ UNCHANGED <<waw, expected, returned, special, epoch, readers>>

NextR ==
    \/ TickR
    \/ Clear

SpecR == InitR /\ [][NextR]_vars

\* the wheel w received one rollup in this step: it was ticked once, and its
\* newest slot is the combination of the last `period` per-second partials
Received(w, w2, period) ==
    /\ w2.alloc
    /\ w2.watermark = w.watermark + w.tick_size_ms
    /\ Len(w2.slots) > 0
    /\ w2.slots[1] = CombineAll(SubSeq(ticked', Len(ticked') - period + 1, Len(ticked')))
    /\ w.retention = "Keep" => Len(w2.slots) = Len(w.slots) + 1

\* the cascade of one tick, n being the number of the tick: each coarser
\* wheel receives a rollup when n is a multiple of its period and is left
\* alone otherwise, and nothing but the watermark and the wheels changes
Cascade(n) ==
    /\ IF n % MINUTES_AS_SECS = 0
       THEN Received(haw.minutes_wheel, haw'.minutes_wheel, MINUTES_AS_SECS)
       ELSE haw'.minutes_wheel = haw.minutes_wheel
    /\ IF n % HOURS_AS_SECS = 0
       THEN Received(haw.hours_wheel, haw'.hours_wheel, HOURS_AS_SECS)
       ELSE haw'.hours_wheel = haw.hours_wheel
    /\ IF n % DAYS_AS_SECS = 0
       THEN Received(haw.days_wheel, haw'.days_wheel, DAYS_AS_SECS)
       ELSE haw'.days_wheel = haw.days_wheel
    /\ IF n % WEEK_AS_SECS = 0
       THEN Received(haw.weeks_wheel, haw'.weeks_wheel, WEEK_AS_SECS)
       ELSE haw'.weeks_wheel = haw.weeks_wheel
    /\ IF n % YEAR_AS_SECS = 0
       THEN Received(haw.years_wheel, haw'.years_wheel, YEAR_AS_SECS)
       ELSE haw'.years_wheel = haw.years_wheel
    /\ n % (YEAR_AS_SECS * YEARS) = 0 =>
           /\ total(haw'.years_wheel) = None
           /\ rotation_count(haw'.years_wheel) = 0
    /\ [haw' EXCEPT !.watermark = haw.watermark,
                    !.seconds_wheel = haw.seconds_wheel,
                    !.minutes_wheel = haw.minutes_wheel,
                    !.hours_wheel = haw.hours_wheel,
                    !.days_wheel = haw.days_wheel,
                    !.weeks_wheel = haw.weeks_wheel,
                    !.years_wheel = haw.years_wheel] = haw

\* C11, as stated: rollups cascade on every SECONDS-th, MINUTES*SECONDS-th, ...
\* tick, the ticks counted from the creation of the HAW, and on no other.
C11_RollupEveryRotation ==
    [][Len(ticked') = Len(ticked) + 1 => Cascade(Len(ticked'))]_vars

\* C11, amended: rollups cascade exactly on full rotations, the ticks counted
\* from the creation of the HAW or, if its wheels have been cleared since,
\* from the last clear: a coarser wheel receives exactly one rollup, the
\* combination of the per-second partials of its period, on the ticks that
\* are a multiple of its period, and nothing on any other tick; a completed
\* rotation of the years wheel leaves nothing behind.
C11_RollupSinceCleared ==
    [][Len(ticked') = Len(ticked) + 1 => Cascade(Len(ticked') - epoch')]_vars

\* C11 witness: the years wheel has completed a rotation, with a partial
\* that was rolled up through every wheel, and its total is gone
C11_Witness ==
    /\ last.op = "tick"
    /\ Len(ticked) - epoch = YEAR_AS_SECS * YEARS
    /\ CombineAll(ticked) # IDENTITY
    /\ haw.years_wheel.alloc
    /\ Len(haw.years_wheel.slots) = YEARS
    /\ total(haw.years_wheel) = None

\* ------------------------------------------------- the written wheel
\* A HAW and its write-ahead wheel under insert, advance, advance_to and
\* window, the watermark of the HAW being the watermark inserts are measured
\* against.

\* timestamps handed to insert, relative to the watermark (ms): late, at the
\* watermark, inside the wheel, and at and beyond its capacity
InsertOffsets ==
    {-1, 0, SECOND_AS_MS,
     (DEFAULT_WRITE_AHEAD_SLOTS - 1) * SECOND_AS_MS + 999,
     DEFAULT_WRITE_AHEAD_SLOTS * SECOND_AS_MS,
     DEFAULT_WRITE_AHEAD_SLOTS * SECOND_AS_MS + 1,
     (DEFAULT_WRITE_AHEAD_SLOTS + 1) * SECOND_AS_MS}

\* the state after insert(entry) returned r
InsertReturned(entry, r) ==
    /\ Events + (IF r.res = Ok THEN 1 ELSE 0) <= MaxEvents
    /\ waw' = r.waw
    /\ expected' =
           IF r.res # Ok THEN expected
           ELSE LET addend == duration_whole_seconds(entry.timestamp - haw.watermark)
                    at == Len(returned) + addend + 1
                    padded == [i \in 1..Max(Len(expected), at) |->
                                  IF i <= Len(expected) THEN expected[i] ELSE None]
                IN  [padded EXCEPT ![at] = waw_insert(padded[at], entry.data)]
    /\ last' = [op |-> "insert", arg |-> entry, res |-> r.res, before |-> Before]
    /\ UNCHANGED <<haw, ticked, returned, special, epoch, readers>>

\* insert(entry)
Insert ==
    \E off \in InsertOffsets, data \in 1..MaxVal :
        /\ haw.watermark + off >= 0
        /\ \E entry \in {Entry(data, haw.watermark + off)} :
               \E r \in {insert(waw, haw.watermark, entry)} : InsertReturned(entry, r)

NextW ==
    \/ Insert
    \/ Advance
    \/ AdvanceTo
    \/ Window

SpecW == Init /\ [][NextW]_vars

\* the write-ahead wheel an operation started from
WawBefore ==
    [capacity |-> Len(last.before.slots), slots |-> last.before.slots,
     head |-> last.before.head, tail |-> last.before.tail]

\* C12: an insert whose timestamp is below the watermark returns Error::Late
\* with the entry and the watermark, and leaves the write-ahead wheel and the
\* HAW as they were.
C12_LateRejected ==
    [][(last'.op = "insert" /\ last'.arg.timestamp < haw.watermark) =>
           /\ last'.res = Late(last'.arg, haw.watermark)
           /\ waw' = waw
           /\ haw' = haw]_vars

\* C12 witness: an entry one millisecond late was rejected while the
\* write-ahead wheel held an earlier input
C12_Witness ==
    /\ last.op = "insert"
    /\ last.res.kind = "Late"
    /\ last.res.entry.timestamp = haw.watermark - 1
    /\ \E i \in 1..waw.capacity : waw.slots[i].some

\* C13: an insert whose addend (whole seconds above the watermark) is
\* >= write_ahead_len() returns Error::Overflow with max_write_ahead_ts =
\* watermark + write_ahead_len() seconds, and leaves the wheel unchanged.
C13_OverflowRejected ==
    (/\ last.op = "insert"
     /\ last.arg.timestamp >= last.before.watermark
     /\ duration_whole_seconds(last.arg.timestamp - last.before.watermark)
            >= write_ahead_len(WawBefore)) =>
        /\ last.res = Overflow(last.arg, last.before.watermark
                                           + write_ahead_len(WawBefore) * SECOND_AS_MS)
        /\ waw = WawBefore

\* advance(d1) followed by advance(d2), and advance(d1 + d2), from this state:
\* the HAW, the write-ahead wheel and the windows returned are the same
SplitAdvanceAgrees(d1, d2) ==
    LET a == advance(haw, waw, d1)
        b == advance(a.haw, a.waw, d2)
        c == advance(haw, waw, d1 + d2)
    IN  /\ b.haw = c.haw
        /\ b.waw = c.waw
        /\ a.windows \o b.windows = c.windows

\* pairs of durations (ms) with d1 + d2 <= CYCLE_LENGTH: whole seconds and
\* fractions of a second
DurationPairs ==
    {<<0, 1000>>, <<1000, 1000>>, <<2000, 1000>>, <<1000, 3000>>,
     <<1200, 1300>>, <<2500, 0>>, <<1500, 1500>>, <<500, 500>>}

\* the pairs whose fractions of a second add up to less than a second
NoCarry(p) == (p[1] % SECOND_AS_MS) + (p[2] % SECOND_AS_MS) < SECOND_AS_MS

\* C14, as stated: for any durations d1 and d2 with d1 + d2 <= CYCLE_LENGTH,
\* advance(d1) followed by advance(d2) leaves the HAW, the windows returned
\* and the write-ahead wheel as a single advance(d1 + d2) does.
C14_AdvanceSplits ==
    \A p \in DurationPairs : SplitAdvanceAgrees(p[1], p[2])

\* C14, amended: the same for non-negative durations whose fractions of a
\* second add up to less than one second, whole seconds among them.
C14_AdvanceSplitsWholeSeconds ==
    \A p \in {q \in DurationPairs : NoCarry(q)} : SplitAdvanceAgrees(p[1], p[2])

\* C14 witness: with a window installed and an input in the write-ahead
\* wheel, the two advances of one second and of three seconds return a window
\* between them
C14_Witness ==
    /\ haw.window_manager.some
    /\ \E i \in 1..waw.capacity : waw.slots[i].some
    /\ advance(haw, waw, 1000).windows = <<>>
    /\ advance(haw, waw, 4000).windows # <<>>

\* the ranges with end <= start around the data the wheels hold
InvalidRanges ==
    {r \in {WheelRange(start, end) : start, end \in WheelStart..(now(haw) + 1)} :
        r.end <= r.start}

\* C15: combine_range with end <= start, and interval with a zero duration,
\* return None and do not abort.
C15_InvalidRangeIsNone ==
    /\ \A r \in InvalidRanges :
           LET q == combine_range_inner(haw, r)
           IN  ~q.panic /\ ~q.hang /\ q.res = None
    /\ LET q == interval_with_stats(haw, 0)
       IN  ~q.panic /\ ~q.hang /\ q.res = None

\* how far around the wheels' data the uncovered ranges reach (seconds)
MaxOutside == 10

\* the valid ranges that no tick has covered: every range near a HAW that
\* has not ticked, and the ranges wholly before wheel_start or wholly after
\* the watermark
UncoveredRanges ==
    LET lo == Max(0, WheelStart - MaxOutside)
        hi == now(haw) + MaxOutside
    IN  {r \in {WheelRange(start, end) : start, end \in lo..hi} :
            /\ r.start < r.end
            /\ \/ Len(ticked) = 0
               \/ r.end <= WheelStart
               \/ r.start >= now(haw)}

\* C16: combine_range over a valid range that no tick has covered returns
\* None and does not abort, for invertible and non-invertible aggregators.
C16_UncoveredRangeIsNone ==
    \A r \in UncoveredRanges :
        LET q == combine_range_inner(haw, r)
        IN  ~q.panic /\ ~q.hang /\ q.res = None

\* C17: advance_to(w) with w <= the current watermark performs no tick and
\* returns no window; the HAW (watermark, wheels, delta log, window state)
\* and the write-ahead wheel are unchanged.
C17_AdvanceToBehind ==
    \A w \in {0, haw.watermark - SECOND_AS_MS, haw.watermark - 1, haw.watermark} :
        (0 <= w /\ w <= haw.watermark) =>
            LET r == advance_to(haw, waw, w)
            IN  /\ r.haw = haw
                /\ r.waw = waw
                /\ r.windows = <<>>
                /\ r.fed = <<>>
                /\ ~r.cleared /\ ~r.hang

\* C17 witness: advance_to was called with a watermark one second behind, on
\* a HAW that has ticked, has a window installed and an input written ahead,
\* and the watermark is where it was
C17_Witness ==
    /\ last.op = "advance_to"
    /\ last.arg = last.before.watermark - SECOND_AS_MS
    /\ haw.watermark = last.before.watermark
    /\ Len(ticked) > 0
    /\ haw.window_manager.some
    /\ \E i \in 1..waw.capacity : waw.slots[i].some

\* ------------------------------------------------- periodic windows
\* A HAW that takes inserts, is advanced and has one window installed,
\* started at the epoch, one second into a minute, or two seconds before
\* midnight of the 31st of January.
InitialWatermarksWin == {0, 1000, to_ms(30 * DAYS_AS_SECS - 2)}

\* window lengths (ms), range >= slide and whole seconds: range a multiple
\* of slide (one pair length) and not (two alternating pair lengths)
WindowSpecsWin == {<<2000, 2000>>, <<4000, 2000>>, <<3000, 2000>>, <<3000, 1000>>}

InitWin ==
    /\ \E time \in InitialWatermarksWin, conf \in Confs : haw = HawNew(time, conf)
    /\ waw = with_capacity(DEFAULT_WRITE_AHEAD_SLOTS)
    /\ ticked = <<>>
    /\ expected = <<>>
    /\ returned = <<>>
    /\ last = NoOp
    /\ special = 0
    /\ epoch = 0
    /\ readers = <<>>

\* haw.window(range, slide)
WindowWin ==
    \E ws \in WindowSpecsWin :
        /\ special < MaxSpecial
        /\ special' = special + 1
        /\ haw' = window(haw, ws[1], ws[2])
        /\ last' = [op |-> "window", arg |-> ws, res |-> <<>>, before |-> Before]
        /\ UNCHANGED <<waw, ticked, expected, returned, epoch, readers>>

NextWin ==
    \/ Insert
    \/ Advance
    \/ WindowWin

SpecWin == InitWin /\ [][NextWin]_vars

\* seconds to advance a HAW by after a window was installed
MaxWindowTicks == 7

\* durations (ms) handed to advance after the installation: whole seconds,
\* and one with half a second on top
WindowAdvances == {k * SECOND_AS_MS : k \in 1..MaxWindowTicks} \cup {2500}

\* the same, made in two calls
WindowAdvancePairs == {<<1000, 2000>>, <<2000, 3000>>, <<3000, 2000>>, <<1000, 4000>>}

\* the timestamps of a sequence of window results
Timestamps(ws) == [i \in 1..Len(ws) |-> ws[i][1]]

\* the watermarks w0 + range + k * slide (k >= 0) up to `upto`, increasing
WindowEnds(w0, range, slide, upto) ==
    LET n == IF upto < w0 + range THEN 0 ELSE (upto - w0 - range) \div slide + 1
    IN  [k \in 1..n |-> w0 + range + (k - 1) * slide]

\* the watermark a HAW at `w0` is at after advance(dur)
Reached(w0, dur) == w0 + duration_whole_seconds(dur) * SECOND_AS_MS

\* C18: right after window(range, slide) was installed at watermark w0,
\* advance by any duration returns, and returns one window result for each
\* of the watermarks w0 + range + k * slide it passes, in increasing order,
\* and no other; the same holds of two advances in a row.
C18_WindowsOnTime ==
    last.op = "window" =>
        /\ \A d \in WindowAdvances :
               LET r == advance(haw, waw, d)
               IN  /\ ~r.hang
                   /\ Timestamps(r.windows) =
                          WindowEnds(haw.watermark, last.arg[1], last.arg[2],
                                     Reached(haw.watermark, d))
        /\ \A p \in WindowAdvancePairs :
               LET a == advance(haw, waw, p[1])
                   b == advance(a.haw, a.waw, p[2])
               IN  /\ ~a.hang /\ ~b.hang
                   /\ Timestamps(a.windows \o b.windows) =
                          WindowEnds(haw.watermark, last.arg[1], last.arg[2],
                                     Reached(haw.watermark, p[1] + p[2]))

\* combine_range([t - range, t)) on HAW `h`, IDENTITY where it is None
RangeBefore(h, t, range) ==
    unwrap_or(combine_range(h, WheelRange(to_offset_date(t - range), to_offset_date(t))),
              IDENTITY)

\* C19: right after window(range, slide) was installed, every window result
\* (t, p) an advance returns has p equal to combine_range([t - range, t))
\* as evaluated on the HAW when its watermark is t, IDENTITY where that is
\* None.
C19_WindowIsRange ==
    last.op = "window" =>
        \A d \in WindowAdvances :
            LET r == advance(haw, waw, d)
            IN  /\ ~r.hang
                /\ \A i \in 1..Len(r.windows) :
                       LET t == r.windows[i][1]
                           at == advance(haw, waw, t - haw.watermark)
                       IN  r.windows[i][2] = RangeBefore(at.haw, t, last.arg[1])
\* ---------------------------------------------------------------- merge
\* watermarks (ms) of the other HAW of a merge, around watermark `w`: equal,
\* whole seconds behind and ahead, a fraction of a second ahead, and more
\* than one cycle ahead
MergeTimes(w) ==
    {t \in {0, w - 2000, w - 1000, w, w + 1000, w + 3000, w + 500, w + 1500,
            w + (CYCLE_LENGTH_SECS + 1) * SECOND_AS_MS} : t >= 0}

\* the two watermarks after self.merge(other) are both the larger of the two
\* before
Aligned(self, other) ==
    LET r == merge(self, other)
    IN  /\ r.self.watermark = Max(self.watermark, other.watermark)
        /\ r.other.watermark = Max(self.watermark, other.watermark)

\* C20: after haw.merge(other), for another HAW of any watermark, both HAWs
\* are at the larger of the two watermarks they had before the merge.
C20_MergeAligns ==
    \A time \in MergeTimes(haw.watermark) : Aligned(haw, HawNew(time, haw.conf))
\* --------------------------------------------------- rotation accounting
\* C21: on a HAW that was created, ticked n times and never cleared, with n
\* below the TOTAL_SECS_IN_WHEEL seconds of one cycle, current_time_in_cycle
\* is n seconds, watermark - current_time_in_cycle is the initial watermark
\* and remaining_ticks is TOTAL_SECS_IN_WHEEL - n.
C21_TimeInCycle ==
    (epoch = 0 /\ Len(ticked) < TOTAL_SECS_IN_WHEEL) =>
        /\ current_time_in_cycle(haw) = Len(ticked)
        /\ haw.watermark - to_ms(current_time_in_cycle(haw)) = SECOND_AS_MS
        /\ remaining_ticks(haw) = TOTAL_SECS_IN_WHEEL - Len(ticked)

\* the last tick of a cycle: every wheel up to the years wheel has rotated
C21_Witness ==
    /\ epoch = 0
    /\ last.op = "tick"
    /\ Len(ticked) = TOTAL_SECS_IN_WHEEL - 1
    /\ rotation_count(haw.years_wheel) = YEARS - 1
    /\ rotation_count(haw.weeks_wheel) = WEEKS - 1
    /\ remaining_ticks(haw) = 1
\* ------------------------------------------- watermarks off the second
\* A HAW created at any time in ms: on a whole second, half a second after
\* one, and one ms before one.
InitialWatermarksT == {0, 1500, 999}

InitT ==
    /\ \E time \in InitialWatermarksT, conf \in Confs : haw = HawNew(time, conf)
    /\ waw = with_capacity(DEFAULT_WRITE_AHEAD_SLOTS)
    /\ ticked = <<>>
    /\ expected = <<>>
    /\ returned = <<>>
    /\ last = NoOp
    /\ special = 0
    /\ epoch = 0
    /\ readers = <<>>

NextT ==
    \/ Tick
    \/ Clear

SpecT == InitT /\ [][NextT]_vars

\* C22 as stated: after any tick the watermark is a multiple of 1000 ms,
\* whatever the watermark the HAW was created with.
C22_WatermarkWholeSeconds ==
    Len(ticked) > 0 => haw.watermark % SECOND_AS_MS = 0

\* C22: a tick leaves the watermark's remainder modulo 1000 ms as it was, so
\* the watermark after a tick is a multiple of 1000 ms exactly when the
\* HAW was created with one.
C22_TickKeepsRemainder ==
    [][Len(ticked') = Len(ticked) + 1 =>
           /\ haw'.watermark = haw.watermark + SECOND_AS_MS
           /\ haw'.watermark % SECOND_AS_MS = haw.watermark % SECOND_AS_MS]_vars

\* a tick on a HAW created half a second after a whole second
C22_Witness ==
    /\ last.op = "tick"
    /\ Len(ticked) = 2
    /\ haw.watermark = 3500
\* ------------------------------------------ ticks of an empty buffer
\* no slot of the write-ahead wheel holds an aggregate
NoOccupiedSlot(w) == \A i \in 1..w.capacity : ~w.slots[i].some

MaxSplitLen == 12
MaxSplitDays == 4

SplitStarts ==
    (0..(2 * DAYS_AS_SECS)) \cup
    {30 * DAYS_AS_SECS + k : k \in (-DAYS_AS_SECS)..DAYS_AS_SECS}

SplitLengths == (1..MaxSplitLen) \cup {k * DAYS_AS_SECS : k \in 1..MaxSplitDays}

InitS ==
    /\ haw = HawNew(0, HawConf("Drop", "Array", FALSE, TRUE))
    /\ waw = with_capacity(DEFAULT_WRITE_AHEAD_SLOTS)
    /\ ticked = <<>>
    /\ expected = <<>>
    /\ returned = <<>>
    /\ \E start \in SplitStarts, len \in SplitLengths :
           last = [op |-> "range", arg |-> WheelRange(start, start + len), res |-> <<>>,
                   before |-> NoOp.before]
    /\ special = 0
    /\ epoch = 0
    /\ readers = <<>>

\* Haw::split_wheel_ranges(range): the sub-ranges, or diverged when the loop
\* never ends
Split ==
    /\ last.op = "range"
    /\ last' = [last EXCEPT !.op = "split",
                            !.res = SplitLoop(last.arg.start, last.arg.end, <<>>,
                                              SplitFuel(last.arg))]
    /\ UNCHANGED <<haw, waw, ticked, expected, returned, special, epoch, readers>>

\* haw.combined_aggregation_plan(ranges) on the sub-ranges of a split
CombinedPlan ==
    /\ last.op = "split"
    /\ ~last.res.diverged
    /\ last' = [last EXCEPT !.op = "combined_aggregation_plan",
                            !.arg = last.res.ranges,
                            !.res = combined_aggregation_plan(haw, last.res.ranges)]
    /\ UNCHANGED <<haw, waw, ticked, expected, returned, special, epoch, readers>>

NextS ==
    \/ Split
    \/ CombinedPlan

SpecS == InitS /\ [][NextS]_vars

\* the sub-ranges are non-empty, start at range.start, follow one another
\* without a gap or an overlap, and end at range.end
Tiles(ranges, range) ==
    /\ Len(ranges) > 0
    /\ \A i \in 1..Len(ranges) : ranges[i].start < ranges[i].end
    /\ ranges[1].start = range.start
    /\ \A i \in 1..(Len(ranges) - 1) : ranges[i + 1].start = ranges[i].end
    /\ ranges[Len(ranges)].end = range.end

\* C24: for every start < end split_wheel_ranges returns, and its sub-ranges
\* are non-empty, contiguous and non-overlapping from start to end.
C24_SplitTiles ==
    last.op = "split" => (~last.res.diverged /\ Tiles(last.res.ranges, last.arg))
\* C25: split_wheel_ranges ends for every start < end with whole-second
\* endpoints, and every iteration of its loop moves current_start strictly
\* forward.
C25_SplitTerminates ==
    last.op = "split" =>
        /\ ~last.res.diverged
        /\ \A i \in 1..Len(last.res.ranges) :
               new_curr_end(last.res.ranges[i].start, last.arg.end) > last.res.ranges[i].start
\* the length in seconds of one slot of the wheel of granularity gran, and
\* the number of slots of that wheel
UnitSecs(gran) ==
    IF gran = Second THEN 1
    ELSE IF gran = Minute THEN MINUTES_AS_SECS
    ELSE IF gran = Hour THEN HOURS_AS_SECS
    ELSE DAYS_AS_SECS

SlotCount(gran) ==
    IF gran = Second THEN SECONDS
    ELSE IF gran = Minute THEN MINUTES
    ELSE IF gran = Hour THEN HOURS
    ELSE DAYS

\* a sub-range starts and ends on a slot boundary of the wheel of its own
\* granularity
SlotAligned(r) ==
    /\ r.start % UnitSecs(lowest_granularity(r)) = 0
    /\ r.end % UnitSecs(lowest_granularity(r)) = 0

\* a sub-range is no longer than the slots of the wheel of its granularity
FitsWheel(r) ==
    (r.end - r.start) \div UnitSecs(lowest_granularity(r)) <= SlotCount(lowest_granularity(r))

\* C26: every sub-range split_wheel_ranges returns starts and ends on a
\* multiple of its own granularity unit and is at most as long, in that
\* unit, as the slot count of that wheel.
C26_SubRangeFitsWheel ==
    (last.op = "split" /\ ~last.res.diverged) =>
        \A i \in 1..Len(last.res.ranges) :
            SlotAligned(last.res.ranges[i]) /\ FitsWheel(last.res.ranges[i])
\* the granularity score of a WheelAggregation
ScoreOf(agg) == granularity_score(agg.range.start, agg.range.end)

\* C27: combined_aggregation_plan returns one WheelAggregation for each
\* sub-range it was given and no other, ordered by non-decreasing
\* granularity score, sub-ranges of equal score in their order in time.
C27_PlanSortedByScore ==
    last.op = "combined_aggregation_plan" =>
        /\ Len(last.res) = Len(last.arg)
        /\ {last.res[i].range : i \in 1..Len(last.res)} = {last.arg[i] : i \in 1..Len(last.arg)}
        /\ \A i \in 1..Len(last.res) :
               last.res[i] = wheel_aggregation_plan(haw, last.res[i].range)
        /\ \A i, j \in 1..Len(last.res) :
               i < j => /\ ScoreOf(last.res[i]) <= ScoreOf(last.res[j])
                        /\ ScoreOf(last.res[i]) = ScoreOf(last.res[j])
                               => last.res[i].range.start < last.res[j].range.start

\* a plan of four sub-ranges or more that was reordered and holds two
\* sub-ranges of the same score
C27_Witness ==
    /\ last.op = "combined_aggregation_plan"
    /\ Len(last.res) >= 4
    /\ \E i \in 1..Len(last.res) : last.res[i].range # last.arg[i]
    /\ \E i, j \in 1..Len(last.res) : i < j /\ ScoreOf(last.res[i]) = ScoreOf(last.res[j])
\* ------------------------------------------------------- the planner
\* how far around the wheels' data the planned ranges reach (seconds)
MaxPlanOutside == 2

\* the ranges [start, end) handed to the planner: start < end, from before
\* wheel_start to after the watermark
PlanRanges ==
    {r \in {WheelRange(start, end) :
               start, end \in Max(0, WheelStart - MaxPlanOutside)..(now(haw) + MaxPlanOutside)} :
        r.start < r.end}

\* an early return for ranges shorter than one second instead of SECONDS
exits_early_below_one_second(h, range) ==
    LET single == WheelAggregationPlan(wheel_aggregation_plan(h, range))
        best1 == IF to_ms(range.start) <= wheel_start(h) /\ to_ms(range.end) >= h.watermark
                 THEN LandmarkAggregation ELSE single
    IN  is_prefix_or_landmark(best1) \/ whole_seconds(duration(range)) < 1

\* the early return of create_exec_plan
exits_early(h, range) ==
    LET single == WheelAggregationPlan(wheel_aggregation_plan(h, range))
        best1 == IF to_ms(range.start) <= wheel_start(h) /\ to_ms(range.end) >= h.watermark
                 THEN LandmarkAggregation ELSE single
    IN  is_prefix_or_landmark(best1) \/ whole_seconds(duration(range)) < SECONDS

\* the plans create_exec_plan builds for a range besides the Landmark, in
\* the order it builds them; Diverged for a Combined plan whose split never
\* returns
exec_plan_candidates(h, range) ==
    LET single == WheelAggregationPlan(wheel_aggregation_plan(h, range))
        best1 == IF to_ms(range.start) <= wheel_start(h) /\ to_ms(range.end) >= h.watermark
                 THEN LandmarkAggregation ELSE single
        best2 == IF h.conf.invertible THEN min_plan(best1, inverse_plan(h, range)) ELSE best1
        with_combined ==
            IF h.conf.use_hints /\ h.conf.simd_support
            THEN plan_cost(best2) > h.conf.simd_threshold
            ELSE TRUE
    IN  <<single>>
        \o (IF ~exits_early(h, range) /\ h.conf.invertible
            THEN <<inverse_plan(h, range)>> ELSE <<>>)
        \o (IF ~exits_early(h, range) /\ with_combined
            THEN <<IF split_diverges(range) THEN Diverged ELSE combined_plan(h, range)>>
            ELSE <<>>)

\* C28: create_exec_plan returns a plan, and its cost is at most the cost
\* of every candidate it built for the range: the single-wheel aggregation,
\* the InverseLandmark plan and the Combined plan.
C28_PlanIsCheapest ==
    \A r \in PlanRanges :
        /\ create_exec_plan(haw, r).kind # "Diverged"
        /\ \A i \in 1..Len(exec_plan_candidates(haw, r)) :
               plan_cost(create_exec_plan(haw, r)) <= plan_cost(exec_plan_candidates(haw, r)[i])
\* C29: create_exec_plan returns LandmarkAggregation for a range exactly
\* when the range starts at or before wheel_start and ends at or after
\* the watermark, wheel_start being watermark - current_time_in_cycle and 0
\* where that is negative.
C29_LandmarkIffCovered ==
    \A r \in PlanRanges :
        (create_exec_plan(haw, r).kind = "LandmarkAggregation")
            <=> (/\ to_ms(r.start) <= Max(0, haw.watermark - to_ms(current_time_in_cycle(haw)))
                 /\ to_ms(r.end) >= haw.watermark)

\* a HAW that has ticked, with a range that gets the Landmark, a range that
\* starts one second too late and a range that ends one second too early
C29_Witness ==
    /\ Len(ticked) >= 3
    /\ create_exec_plan(haw, WheelRange(WheelStart, now(haw))).kind = "LandmarkAggregation"
    /\ create_exec_plan(haw, WheelRange(WheelStart + 1, now(haw))).kind # "LandmarkAggregation"
    /\ create_exec_plan(haw, WheelRange(WheelStart, now(haw) - 1)).kind # "LandmarkAggregation"
\* the best plan before the early return is a Landmark or a single-wheel
\* Prefix plan
BestIsConstant(h, r) ==
    \/ to_ms(r.start) <= wheel_start(h) /\ to_ms(r.end) >= h.watermark
    \/ wheel_aggregation_plan(h, r).plan.kind = "Prefix"

\* the number of candidates create_exec_plan builds when it does not return
\* early: the single-wheel plan, the InverseLandmark plan of an invertible
\* aggregator, and the Combined plan
FullCandidates(h) == IF h.conf.invertible THEN 3 ELSE 2

Occupied(w) == Cardinality({i \in 1..w.capacity : w.slots[i].some})

\* C31: in every state of the write-ahead wheel reached by accepted
\* write_ahead calls and ticks, (head - tail) mod capacity is the number of
\* occupied slots.
C31_LenIsOccupied == waw_len(waw) = Occupied(waw)
\* ------------------------------------------------------ the delta log
\* C32: with generate_deltas the delta log holds one entry for every tick
\* performed, by advance or by delta_advance; without it the log stays
\* empty.
C32_DeltaPerTick ==
    IF haw.conf.generate_deltas
    THEN Len(haw.delta) = Len(ticked)
    ELSE haw.delta = <<>>
\* ------------------------------------------ the window state per tick
\* C33: with a window installed, every tick, by advance or by
\* delta_advance, takes one second off pair_ticks_remaining or completes
\* the pair, so next_pair_end stays ahead of the watermark by exactly the
\* seconds that remain of the current pair.
C33_WindowKeepsUp ==
    haw.window_manager.some =>
        haw.window_manager.v.next_pair_end
            = haw.watermark + haw.window_manager.v.pair_ticks_remaining * SECOND_AS_MS

\* ---- lazy allocation of the wheels
\* the six wheels of a HAW, finest first, with the number of ticks after
\* which the first rollup reaches each of them
HawWheels(h) ==
    <<h.seconds_wheel, h.minutes_wheel, h.hours_wheel,
      h.days_wheel, h.weeks_wheel, h.years_wheel>>
FirstUse ==
    <<1, MINUTES_AS_SECS, HOURS_AS_SECS, DAYS_AS_SECS, WEEK_AS_SECS, YEAR_AS_SECS>>

\* C34: a fresh HAW has no wheel allocated, has length 0 and is empty; as long
\* as it was never cleared, the seconds wheel is allocated from the first
\* tick on and each coarser wheel from the tick of the first rollup into it
\* on, and no earlier; the total and every aggregate of a wheel that is not
\* allocated are None.
C34_LazyAllocation ==
    special = 0 =>
        /\ \A i \in 1..6 : HawWheels(haw)[i].alloc <=> Len(ticked) >= FirstUse[i]
        /\ Len(ticked) = 0 => haw_len(haw) = 0 /\ haw_is_empty(haw)
        /\ \A i \in 1..6 :
               ~HawWheels(haw)[i].alloc =>
                   /\ total(HawWheels(haw)[i]) = None
                   /\ wheel_len(HawWheels(haw)[i]) = 0
                   /\ \A slots \in 1..2 :
                          aggregate(HawWheels(haw)[i],
                                    to_offset_date(haw.watermark) - slots, slots,
                                    Second) = None

\* the first rollup has just allocated the minutes wheel, and nothing coarser
C34_Witness ==
    /\ special = 0
    /\ Len(ticked) = MINUTES_AS_SECS
    /\ haw.minutes_wheel.alloc
    /\ ~haw.hours_wheel.alloc
    /\ total(haw.hours_wheel) = None

\* ---- advance_to and the requested time
\* the watermarks advance_to is asked for: now, a fraction of a second ahead,
\* whole seconds ahead, and more than a full cycle ahead
AdvanceTargets(wm) ==
    {wm, wm + 500, wm + SECOND_AS_MS, wm + 2500, wm + (CYCLE_LENGTH_SECS + 1) * SECOND_AS_MS}

\* advance_to(target) that returns leaves the watermark within one second
\* below the target
CaughtUp(h, w, target) ==
    LET r == advance_to(h, w, target)
    IN  ~r.hang =>
            /\ target - SECOND_AS_MS < r.haw.watermark
            /\ r.haw.watermark <= target

\* C35: after advance_to(w) with w at or after the watermark, the new
\* watermark is above w - 1000 and at most w, for every such w, a jump of
\* more than one full cycle included.
C35_AdvanceToCatchesUp ==
    \A target \in AdvanceTargets(haw.watermark) : CaughtUp(haw, waw, target)

\* ---- advance by nothing or backwards
\* advance(dur) that makes no tick and changes neither the HAW nor the
\* write-ahead buffer
NoOpAdvance(h, w, dur) ==
    LET r == advance(h, w, dur)
    IN  /\ r.fed = <<>>
        /\ r.haw = h
        /\ r.waw = w

\* C36: advance with a zero or a negative duration makes no tick and leaves
\* the watermark, every wheel and the write-ahead buffer as they were.
C36_NoBackwardAdvance ==
    \A dur \in {0, -500, -SECOND_AS_MS, -2500} : NoOpAdvance(haw, waw, dur)

\* ---- the gaps of the InverseLandmark plan
\* every range of a plan ends at or after its start
WellFormedGaps(plan) ==
    \A i \in 1..Len(plan.aggs) : plan.aggs[i].range.end >= plan.aggs[i].range.start

\* C37: for a range with end > start that takes create_exec_plan past its
\* early return on an invertible aggregator, the InverseLandmark plan that is
\* built has only gaps that end at or after their start: [wheel_start, start)
\* with wheel_start <= start and, when present, [end, watermark) with
\* end < watermark.
C37_InverseGapsWellFormed ==
    \A r \in PlanRanges :
        (haw.conf.invertible /\ ~exits_early(haw, r)) => WellFormedGaps(inverse_plan(haw, r))

\* ============================================ queries, with their samples
\* queries per run, and ticks per run: a day of the scaled calendar
MaxQueries == 1
MaxSampleTicks == 8

\* a query that allocates the seconds wheel on its way
after_query_allocating(h, table) ==
    [h EXCEPT !.frequencies = table, !.seconds_wheel = get_or_insert(h.seconds_wheel)]

\* the HAW after a query: the queries take &self, and the cells of the
\* frequencies table are the only part of the HAW they can write
after_query(h, table) == [h EXCEPT !.frequencies = table]

InitF ==
    /\ \E conf \in Confs : haw = HawNew(0, conf)
    /\ waw = with_capacity(DEFAULT_WRITE_AHEAD_SLOTS)
    /\ ticked = <<>>
    /\ expected = <<>>
    /\ returned = <<>>
    /\ last = NoOp
    /\ special = 0
    /\ epoch = 0
    /\ readers = <<>>

\* haw.delta_advance([delta]): one tick
TickF ==
    \E delta \in DeltaSet :
        /\ Len(ticked) < MaxSampleTicks
        /\ Events + NumSome(<<delta>>) <= MaxEvents
        /\ haw' = delta_advance(haw, <<delta>>)
        /\ ticked' = Append(ticked, unwrap_or(delta, IDENTITY))
        /\ last' = [op |-> "tick", arg |-> delta, res |-> <<>>, before |-> Before]
        /\ UNCHANGED <<waw, expected, returned, special, epoch, readers>>

\* a query that returns q and leaves the frequencies as `table`
Queried(op, arg, q, table) ==
    /\ special < MaxQueries
    /\ ~q.panic
    /\ ~q.hang
    /\ haw' = after_query(haw, table)
    /\ last' = [op |-> op, arg |-> arg, res |-> q.res, before |-> Before]
    /\ special' = special + 1
    /\ UNCHANGED <<waw, ticked, expected, returned, epoch, readers>>

\* haw.wheel_aggregation(range)
WheelAggregationQuery ==
    \E range \in ValidRanges :
        \E wa \in {wheel_aggregation(haw, range)} :
            Queried("wheel_aggregation", range,
                    [res |-> wa.res, panic |-> wa.panic, hang |-> FALSE],
                    wheel_aggregation_frequencies(haw.frequencies, range))

\* haw.combine_range(range) / haw.analyze_combine_range(range)
CombineRange ==
    \E range \in ValidRanges :
        \E q \in {combine_range_inner(haw, range)} :
            Queried("combine_range", range, q, combine_range_frequencies(haw, range))

\* haw.explain_combine_range(range): the plan is built and not executed
ExplainCombineRange ==
    \E range \in ValidRanges :
        \E plan \in {create_exec_plan(haw, range)} :
            Queried("explain_combine_range", range,
                    [res |-> Some(plan), panic |-> FALSE, hang |-> plan = Diverged],
                    haw.frequencies)

\* haw.interval(dur), for the durations that stay within the wheel's time
IntervalDurations == {1000, 2000, 4000}

Interval ==
    \E dur \in IntervalDurations :
        /\ now(haw) - duration_whole_seconds(dur) >= WheelStart
        /\ \E q \in {interval_with_stats(haw, dur)} :
               Queried("interval", dur, q,
                       combine_range_frequencies(
                           haw, WheelRange(now(haw) - duration_whole_seconds(dur), now(haw))))

\* haw.landmark()
Landmark ==
    \E lm \in {analyze_landmark(haw)} :
        Queried("landmark", <<>>, [res |-> lm.res, panic |-> FALSE, hang |-> FALSE],
                haw.frequencies)

NextF ==
    \/ TickF
    \/ WheelAggregationQuery
    \/ CombineRange
    \/ ExplainCombineRange
    \/ Interval
    \/ Landmark

SpecF == InitF /\ [][NextF]_vars

QueryOps == {"wheel_aggregation", "combine_range", "explain_combine_range", "interval", "landmark"}

\* every query answers the same on h and on h with another frequencies table
SameAnswers(h, table) ==
    LET h2 == [h EXCEPT !.frequencies = table]
    IN  /\ analyze_landmark(h2) = analyze_landmark(h)
        /\ \A dur \in IntervalDurations :
               now(h) - duration_whole_seconds(dur) >= WheelStart =>
                   interval_with_stats(h2, dur) = interval_with_stats(h, dur)
        /\ \A r \in ValidRanges :
               /\ combine_range_inner(h2, r) = combine_range_inner(h, r)
               /\ explain_combine_range(h2, r) = explain_combine_range(h, r)
               /\ wheel_aggregation(h2, r) = wheel_aggregation(h, r)

C39_OneSamplePerCall ==
    [][last'.op = "wheel_aggregation" =>
           LET range == last'.arg
               gran == lowest_granularity(range)
               scans == whole_units(range.end - range.start, gran)
           IN  /\ haw'.frequencies[gran].count = haw.frequencies[gran].count + 1
               /\ haw'.frequencies[gran].sum = haw.frequencies[gran].sum + scans
               /\ \A g \in 0..5 \ {gran} : haw'.frequencies[g] = haw.frequencies[g]]_vars

\* ================================== concurrent readers in sync mode
\* threads that call Frequency::record, and the largest value recorded
MaxReaders == 3
MaxScans == 2

\* a thread that has not called record yet
Idle == [pc |-> "idle", gran |-> Second, value |-> 0]

InitC ==
    /\ \E conf \in Confs : haw = HawNew(0, conf)
    /\ waw = with_capacity(DEFAULT_WRITE_AHEAD_SLOTS)
    /\ ticked = <<>>
    /\ expected = <<>>
    /\ returned = <<>>
    /\ last = NoOp
    /\ special = 0
    /\ epoch = 0
    /\ readers = [r \in 1..MaxReaders |-> Idle]

\* a reader enters record(value) on the entry of one granularity
RecordCall ==
    \E r \in DOMAIN readers, gran \in {Second, Minute}, value \in 0..MaxScans :
        /\ readers[r].pc = "idle"
        /\ readers' = [readers EXCEPT ![r] = [pc |-> "sum", gran |-> gran, value |-> value]]
        /\ UNCHANGED <<haw, waw, ticked, expected, returned, last, special, epoch>>

\* self.sum.fetch_add(value, Ordering::Relaxed): one atomic step
FetchAddSum ==
    \E r \in DOMAIN readers :
        /\ readers[r].pc = "sum"
        /\ haw' = [haw EXCEPT !.frequencies[readers[r].gran].sum =
                                  fetch_add(@, readers[r].value)]
        /\ readers' = [readers EXCEPT ![r].pc = "count"]
        /\ UNCHANGED <<waw, ticked, expected, returned, last, special, epoch>>

\* self.count.fetch_add(1, Ordering::Relaxed): one atomic step
FetchAddCount ==
    \E r \in DOMAIN readers :
        /\ readers[r].pc = "count"
        /\ haw' = [haw EXCEPT !.frequencies[readers[r].gran].count = fetch_add(@, 1)]
        /\ readers' = [readers EXCEPT ![r].pc = "done"]
        /\ UNCHANGED <<waw, ticked, expected, returned, last, special, epoch>>

NextC ==
    \/ RecordCall
    \/ FetchAddSum
    \/ FetchAddCount

SpecC == InitC /\ [][NextC]_vars

\* the readers whose call of record on the entry of gran has returned
Completed(gran) == {r \in DOMAIN readers : readers[r].pc = "done" /\ readers[r].gran = gran}

RECURSIVE SumOfValues(_)
SumOfValues(rs) ==
    IF rs = {} THEN 0
    ELSE LET r == CHOOSE x \in rs : TRUE
         IN  readers[r].value + SumOfValues(rs \ {r})

\* C40: with readers calling Frequency::record concurrently, each as a
\* fetch_add on sum followed by one on count, no update is lost: whenever no
\* call is in progress, every entry's count is the number of calls made on it
\* and its sum the total of the values they recorded.
C40_NoLostUpdate ==
    (\A r \in DOMAIN readers : readers[r].pc \in {"idle", "done"}) =>
        \A gran \in 0..5 :
            /\ haw.frequencies[gran].count = Cardinality(Completed(gran))
            /\ haw.frequencies[gran].sum = SumOfValues(Completed(gran))

\* every reader has recorded a value above 0 on the Minute entry
C40_Witness ==
    /\ \A r \in DOMAIN readers : readers[r].pc = "done" /\ readers[r].gran = Minute
    /\ \A r \in DOMAIN readers : readers[r].value > 0
    /\ haw.frequencies[Minute].count = MaxReaders
    /\ haw.frequencies[Minute].sum > MaxReaders

====
